---- MODULE Spec2Model ----
(***************************************************************************)
(* Verification model of leo-andrei/check-in-service: the transactional    *)
(* outbox (time_records + outbox_events in one PostgreSQL transaction),    *)
(* the outbox relay poll loop, the RabbitMQ fanout topology with its       *)
(* consumers, and the circuit breaker guarding the legacy labor-cost API.  *)
(*                                                                         *)
(* Time is an integer clock.  In the outbox part one clock unit stands for *)
(* the duplicate window of CheckOut; in the breaker part one unit is one   *)
(* second scaled so that the reset timeout is ResetTimeout units.          *)
(***************************************************************************)
EXTENDS Integers, Sequences, FiniteSets, TLC

----------------------------------------------------------------------------
(* Bounds of the model *)

NumInstances == 2
NumRequests == 2
MaxEvents == 4
MaxFaults == 2
MaxTime == 2
NumCallers == 2
MaxThreshold == 2
MaxRun == 3
MaxClock == 4
MaxDelay == 3
MaxMultiplier == 2
MaxRate == 2
MaxMinutes == 2
MaxMessages == 2
MaxBacklog == 3

(* Program constants *)

DuplicateWindowSec == 1
FetchLimit == 2
PrefetchCount == 1
ResetTimeoutS == 1
Minute == 600
SleepBuffer == 1
DLQTTL == 4
GraceS == 2

Employees == {"E1"}
Instances == 1..NumInstances
Requests == 1..NumRequests
Queues == {"labor-cost-queue", "email-queue"}
Callers == 1..NumCallers

StatusCheckedIn == "CHECKED_IN"
StatusCheckedOut == "CHECKED_OUT"
EventTypeEmployeeCheckedIn == "EmployeeCheckedIn"
EventTypeEmployeeCheckedOut == "EmployeeCheckedOut"
StateClosed == "CLOSED"
StateOpen == "OPEN"
StateHalf == "HALF"

NoTime == 0 - 1
NoId == 0
Nil == [nil |-> TRUE]

VARIABLES
    now,        \* wall clock
    faults,     \* infrastructure failures and crashes injected so far
    records,    \* table time_records: record id -> row
    outbox,     \* table outbox_events: sequence of rows in commit order
    locks,      \* row locks held by the running SELECT ... FOR UPDATE of each instance
    req,        \* the HTTP requests in flight (HandleCheckIn), one per slot
    relay,      \* the relay goroutine of each process instance
    sent,       \* event id -> number of messages of it accepted by the exchange
    queue,      \* broker queue -> messages ready
    inflight,   \* broker queue -> messages delivered to its consumer and unacknowledged
    cons,       \* the consumer goroutine of each queue
    acked,      \* broker queue -> event ids acknowledged, in order
    cb,         \* the CircuitBreaker of the legacy labor-cost client
    caller,     \* the goroutines calling the breaker: position inside CanExecute,
                \* the last call completed, its result, a bit flipped by each return
    consec,     \* RecordFailure calls since the last RecordSuccess
    retryConfig, \* RetryConfig of the LaborCostReporter
    handler,    \* the labor-cost worker inside HandleCheckedOut: position, loop
                \* variables, and counts of what it has done so far
    rl,         \* the RateLimiter
    lim,        \* the goroutines calling WaitForToken
    dlq,        \* broker queue -> messages in its dead-letter queue (<queue>-dlq)
    main,       \* the main goroutine: serving, in the pause after cancel() or
                \* exited, and the time of cancel()
    crashed     \* instance -> pending: the rows that were unpublished when it last
                \* crashed, until its next GetUnpublishedEvents returns; returned: those
                \* of them that call returned

dbVars == <<records, outbox, locks>>
brokerVars == <<sent, queue>>
consVars == <<inflight, cons, acked>>
relayVars == <<relay, crashed>>
cbVars == <<cb, caller, consec>>
workerVars == <<retryConfig, handler>>
limiterVars == <<rl, lim>>
procVars == <<dlq, main>>
outboxVars == <<faults, dbVars, req, relayVars, brokerVars, consVars>>
vars == <<now, faults, records, outbox, locks, req, relay, sent, queue, inflight, cons,
          acked, cb, caller, consec, crashed, retryConfig, handler, rl, lim, dlq,
          main>>

----------------------------------------------------------------------------
(* Helpers *)

Min(a, b) == IF a < b THEN a ELSE b

Range(s) == {s[k] : k \in DOMAIN s}

IdleReq == [pc |-> "idle", emp |-> "", phase |-> "none", rec |-> Nil, ev |-> Nil,
            txRec |-> Nil, txRow |-> Nil, resp |-> "none"]

IdleRelay == [pc |-> "tick", batch |-> <<>>, idx |-> 0]

(* A consumer inside Consume: pc is its position (waiting in the select,   *)
(* inside the handler, returned, closed), call the state of the handler    *)
(* call made for the delivery taken last, resp the response given to that  *)
(* delivery, channel the state of its AMQP channel, ret what Consume       *)
(* returned, msg the delivery it took last.                                *)
IdleCons == [pc |-> "wait", msg |-> Nil, call |-> "none", resp |-> "none",
             channel |-> "open", ret |-> "none"]

Running == [pc |-> "serving", cancelAt |-> NoTime]

LaborCostQueue == "labor-cost-queue"
EmailQueue == "email-queue"

(* The process instance that serves request slot q. *)
ServedBy(q) == ((q - 1) % NumInstances) + 1

(* uuid.New(): an identifier no committed row and no request in flight uses. *)
UsedRecIds == DOMAIN records \cup
              {req[q].rec.id : q \in {x \in Requests : req[x].rec # Nil}}
FreshRecId == CHOOSE id \in (1..MaxEvents) \ UsedRecIds :
                 \A o \in (1..MaxEvents) \ UsedRecIds : id <= o

UsedEventIds == {outbox[k].payload.event_id : k \in DOMAIN outbox} \cup
                {req[q].ev.event_id : q \in {x \in Requests : req[x].ev # Nil}}
FreshEventId == CHOOSE id \in (1..MaxEvents) \ UsedEventIds :
                   \A o \in (1..MaxEvents) \ UsedEventIds : id <= o

InFlight == {q \in Requests : req[q].pc # "idle"}

----------------------------------------------------------------------------
(* domain/entities: TimeRecord *)

NewTimeRecord(id, employeeID) ==
    [id |-> id, emp |-> employeeID, checkInAt |-> now, checkOutAt |-> NoTime,
     status |-> StatusCheckedIn, hours |-> 0]

TimeRecordCheckOut(tr) ==
    [tr EXCEPT !.checkOutAt = now, !.status = StatusCheckedOut,
               !.hours = now - tr.checkInAt]

(* json.Marshal of the two event structs: header (event id, type, version) *)
(* plus the type-specific fields.                                          *)
MarshalCheckedIn(eid, tr) ==
    [event_id |-> eid, event_type |-> EventTypeEmployeeCheckedIn, version |-> 1,
     employee_id |-> tr.emp, record_id |-> tr.id,
     check_in_at |-> tr.checkInAt, check_out_at |-> NoTime, hours_worked |-> 0]

MarshalCheckedOut(eid, tr) ==
    [event_id |-> eid, event_type |-> EventTypeEmployeeCheckedOut, version |-> 1,
     employee_id |-> tr.emp, record_id |-> tr.id,
     check_in_at |-> tr.checkInAt, check_out_at |-> tr.checkOutAt,
     hours_worked |-> tr.hours]

----------------------------------------------------------------------------
(* infrastructure/persistence: PostgresTimeRecordRepository *)

(* SELECT ... WHERE employee_id = $1 AND status = $2 ORDER BY check_in_at  *)
(* DESC LIMIT 1: the ids of the rows the query may return (ties on         *)
(* check_in_at are broken by the database).                                *)
ActiveIds(e) == {id \in DOMAIN records :
                    records[id].emp = e /\ records[id].status = StatusCheckedIn}

FindActiveByEmployeeID(e) ==
    IF ActiveIds(e) = {} THEN {NoId}
    ELSE {id \in ActiveIds(e) :
             \A o \in ActiveIds(e) : records[o].checkInAt <= records[id].checkInAt}

(* rows.Scan of a time_records row into an entities.TimeRecord.            *)
ScanRecord(id) ==
    [id |-> id, emp |-> records[id].emp, checkInAt |-> records[id].checkInAt,
     checkOutAt |-> records[id].checkOutAt, status |-> records[id].status,
     hours |-> records[id].hours]

(* The row version the upsert leaves: absent -> 1, then +1 per update.     *)
Upserted(tr) ==
    IF tr.id \in DOMAIN records
    THEN [records[tr.id] EXCEPT !.checkOutAt = tr.checkOutAt, !.status = tr.status,
                                !.hours = tr.hours, !.writes = @ + 1]
    ELSE [emp |-> tr.emp, checkInAt |-> tr.checkInAt, checkOutAt |-> tr.checkOutAt,
          status |-> tr.status, hours |-> tr.hours, writes |-> 1]

(* Another open transaction holds the row lock of record id.               *)
RecLockedByOther(q, id) ==
    \E o \in Requests \ {q} : req[o].txRec # Nil /\ req[o].txRec.id = id

----------------------------------------------------------------------------
(* presentation/http HandleCheckIn -> services CheckOut / CheckIn ->       *)
(* SaveWithEvent, one step per database round trip.                        *)

Fault == faults < MaxFaults /\ faults' = faults + 1

(* A request arrives; HandleCheckIn first tries CheckOut.                  *)
HandleCheckIn(q, e) ==
    /\ req[q].pc = "idle"
    /\ Len(outbox) + Cardinality(InFlight) < MaxEvents
    /\ req' = [req EXCEPT ![q] = [IdleReq EXCEPT !.pc = "coFind", !.emp = e]]
    /\ UNCHANGED <<cbVars, workerVars, limiterVars, procVars, now, faults, dbVars, relayVars, brokerVars, consVars>>

(* HandleCheckIn writes the response r (the JSON body or http.Error) and   *)
(* the request of slot q is over.                                          *)
Response(q, r) == [IdleReq EXCEPT !.resp = r]

(* CheckOut: FindActiveByEmployeeID succeeded; nil record or a record      *)
(* inside the duplicate window is an error, after which HandleCheckIn      *)
(* falls through to CheckIn.                                               *)
CheckOut(q) ==
    /\ req[q].pc = "coFind"
    /\ \E id \in FindActiveByEmployeeID(req[q].emp) :
          IF id = NoId \/ now - records[id].checkInAt < DuplicateWindowSec
          THEN req' = [req EXCEPT ![q].pc = "ciFind"]
          ELSE LET tr == TimeRecordCheckOut(ScanRecord(id))
               IN req' = [req EXCEPT ![q].pc = "begin", ![q].phase = "out",
                                     ![q].rec = tr,
                                     ![q].ev = MarshalCheckedOut(FreshEventId, tr)]
    /\ UNCHANGED <<cbVars, workerVars, limiterVars, procVars, now, faults, dbVars, relayVars, brokerVars, consVars>>

CheckOutFindFail(q) ==
    /\ req[q].pc = "coFind"
    /\ Fault
    /\ req' = [req EXCEPT ![q].pc = "ciFind"]
    /\ UNCHANGED <<cbVars, workerVars, limiterVars, procVars, now, dbVars, relayVars, brokerVars, consVars>>

(* CheckIn: an existing active record is a conflict (409); otherwise a new *)
(* record and its CheckedIn event go to SaveWithEvent.                     *)
NewCheckIn(q) ==
    LET tr == NewTimeRecord(FreshRecId, req[q].emp)
    IN [req EXCEPT ![q].pc = "begin", ![q].phase = "in", ![q].rec = tr,
                   ![q].ev = MarshalCheckedIn(FreshEventId, tr)]

CheckIn(q) ==
    /\ req[q].pc = "ciFind"
    /\ \E id \in FindActiveByEmployeeID(req[q].emp) :
          IF id # NoId
          THEN req' = [req EXCEPT ![q] = Response(q, "conflict")]
          ELSE req' = NewCheckIn(q)
    /\ UNCHANGED <<cbVars, workerVars, limiterVars, procVars, now, faults, dbVars, relayVars, brokerVars, consVars>>

(* err != nil: the guard "err == nil && existing != nil" is false and      *)
(* CheckIn goes on to create a record.                                     *)
CheckInFindFail(q) ==
    /\ req[q].pc = "ciFind"
    /\ Fault
    /\ req' = NewCheckIn(q)
    /\ UNCHANGED <<cbVars, workerVars, limiterVars, procVars, now, dbVars, relayVars, brokerVars, consVars>>

(* SaveWithEvent returned an error. *)
SaveFailed(q) ==
    IF req[q].phase = "out"
    THEN [req EXCEPT ![q] = [IdleReq EXCEPT !.pc = "ciFind", !.emp = req[q].emp]]
    ELSE [req EXCEPT ![q] = Response(q, "error")]

(* Mutant: the service publishes the event itself after the commit and    *)
(* reports an error while a queue of the broker holds messages.            *)
SaveDonePublishes(q) ==
    IF \E c \in Queues : queue[c] # <<>>
    THEN [req EXCEPT ![q] = Response(q, "error")]
    ELSE IF req[q].phase = "out"
         THEN [req EXCEPT ![q] = Response(q, "checked_out")]
         ELSE [req EXCEPT ![q] = Response(q, "checked_in")]

(* SaveWithEvent returned nil. *)
SaveDone(q) ==
    IF req[q].phase = "out"
    THEN [req EXCEPT ![q] = Response(q, "checked_out")]
    ELSE [req EXCEPT ![q] = Response(q, "checked_in")]

(* json.Marshal(event) and the row INSERT INTO outbox_events takes. *)
OutboxRow(r) ==
    [event_type |-> r.ev.event_type, aggregate_id |-> r.rec.id, payload |-> r.ev,
     created_at |-> now, published |-> FALSE, retry_count |-> 0, last_error |-> ""]

(* BeginTx, then inside the transaction INSERT ... ON CONFLICT (id) DO     *)
(* UPDATE (which waits while another open transaction holds the row) and   *)
(* INSERT INTO outbox_events.  Nothing is visible outside before Commit.   *)
TxExec(q) ==
    /\ req[q].pc = "begin"
    /\ ~RecLockedByOther(q, req[q].rec.id)
    /\ req' = [req EXCEPT ![q].pc = "commit", ![q].txRec = req[q].rec,
                          ![q].txRow = OutboxRow(req[q])]
    /\ UNCHANGED <<cbVars, workerVars, limiterVars, procVars, now, faults, dbVars, relayVars, brokerVars, consVars>>

(* Mutant: the outbox row is written outside the transaction's commit. *)
CommitLosesEvent(r) ==
    /\ records' = [id \in DOMAIN records \cup {r.txRec.id} |->
                      IF id = r.txRec.id THEN Upserted(r.txRec) ELSE records[id]]
    /\ outbox' = outbox

(* tx.Commit(): both writes become visible together. *)
Commit(r) ==
    /\ records' = [id \in DOMAIN records \cup {r.txRec.id} |->
                      IF id = r.txRec.id THEN Upserted(r.txRec) ELSE records[id]]
    /\ outbox' = Append(outbox, r.txRow)

TxCommit(q) ==
    /\ req[q].pc = "commit"
    /\ Commit(req[q])
    /\ req' = SaveDone(q)
    /\ UNCHANGED <<cbVars, workerVars, limiterVars, procVars, now, faults, locks, relayVars, brokerVars, consVars>>

(* BeginTx, the upsert, the marshal/insert or the commit fails: the error  *)
(* is returned and the deferred Rollback runs.                             *)
TxFail(q) ==
    /\ req[q].pc \in {"begin", "commit"}
    /\ Fault
    /\ req' = SaveFailed(q)
    /\ UNCHANGED <<cbVars, workerVars, limiterVars, procVars, now, dbVars, relayVars, brokerVars, consVars>>

----------------------------------------------------------------------------
(* infrastructure/persistence: PostgresOutboxRepository *)

LockedByOther(i) == UNION {locks[j] : j \in Instances \ {i}}

(* Mutant: rows whose publish failed before are no longer selected. *)
ClaimableUntried(i) ==
    {k \in DOMAIN outbox : /\ ~outbox[k].published
                           /\ outbox[k].event_type = EventTypeEmployeeCheckedOut
                           /\ outbox[k].retry_count = 0
                           /\ k \notin UNION {locks[j] : j \in Instances \ {i}}}

(* Mutant: the SELECT has no event_type condition. *)
ClaimableAnyType(i) ==
    {k \in DOMAIN outbox : /\ ~outbox[k].published
                           /\ k \notin UNION {locks[j] : j \in Instances \ {i}}}

(* WHERE published = FALSE AND event_type = $1 ... FOR UPDATE SKIP LOCKED  *)
Claimable(i) ==
    {k \in DOMAIN outbox : /\ ~outbox[k].published
                           /\ outbox[k].event_type = EventTypeEmployeeCheckedOut
                           /\ k \notin LockedByOther(i)}

(* Mutant: ORDER BY created_at DESC. *)
GetUnpublishedEventsNewest(i, limit) ==
    LET n == Min(limit, Cardinality(Claimable(i)))
    IN {s \in [1..n -> Claimable(i)] :
           /\ \A a, b \in 1..n : a < b =>
                 /\ s[a] # s[b]
                 /\ outbox[s[a]].created_at >= outbox[s[b]].created_at
           /\ \A k \in Claimable(i) \ Range(s) :
                 \A a \in 1..n : outbox[s[a]].created_at >= outbox[k].created_at}

(* ORDER BY created_at ASC LIMIT $2: every result the database may give    *)
(* (rows with equal created_at come in either order), as sequences of row  *)
(* ids.                                                                    *)
GetUnpublishedEvents(i, limit) ==
    LET n == Min(limit, Cardinality(Claimable(i)))
    IN {s \in [1..n -> Claimable(i)] :
           /\ \A a, b \in 1..n : a < b =>
                 /\ s[a] # s[b]
                 /\ outbox[s[a]].created_at <= outbox[s[b]].created_at
           /\ \A k \in Claimable(i) \ Range(s) :
                 \A a \in 1..n : outbox[s[a]].created_at <= outbox[k].created_at}

(* rows.Scan into repositories.OutboxEvent *)
ScanEvent(k) ==
    [id |-> k, event_type |-> outbox[k].event_type, payload |-> outbox[k].payload]

MarkAsPublished(k) == [outbox EXCEPT ![k].published = TRUE]

(* Mutant: recording the failure also clears the published flag. *)
IncrementRetryCountResets(k, errorMsg) ==
    [outbox EXCEPT ![k].retry_count = @ + 1, ![k].last_error = errorMsg,
                   ![k].published = FALSE]

(* Mutant: recording the failure also stamps the row with the current time. *)
IncrementRetryCountRestamps(k, errorMsg) ==
    [outbox EXCEPT ![k].retry_count = @ + 1, ![k].last_error = errorMsg,
                   ![k].created_at = now + 1]

IncrementRetryCount(k, errorMsg) ==
    [outbox EXCEPT ![k].retry_count = @ + 1, ![k].last_error = errorMsg]

(* An UPDATE waits for a row lock another session holds. *)
RowFree(i, k) == k \notin LockedByOther(i)

----------------------------------------------------------------------------
(* infrastructure/messaging: RabbitMQPublisher.PublishRaw on the fanout    *)
(* exchange "checkout-events": every bound queue gets a copy.              *)

Message(ev) == [type |-> ev.event_type, body |-> ev.payload, enq |-> now]

(* Mutant: a direct exchange routing to the labor-cost queue only. *)
PublishRawDirect(ev) ==
    /\ sent' = [sent EXCEPT ![ev.payload.event_id] = @ + 1]
    /\ queue' = [queue EXCEPT !["labor-cost-queue"] = Append(@, Message(ev))]

PublishRaw(ev) ==
    /\ sent' = [sent EXCEPT ![ev.payload.event_id] = @ + 1]
    /\ queue' = [c \in Queues |-> Append(queue[c], Message(ev))]

----------------------------------------------------------------------------
(* cmd/api: startOutboxPublisher, one step per database or broker call     *)

Current(i) == relay[i].batch[relay[i].idx]

(* The for-range loop moves to the next event, or the cycle ends and the   *)
(* goroutine waits for the next tick.                                      *)
NextEvent(i) ==
    IF relay[i].idx < Len(relay[i].batch)
    THEN [relay EXCEPT ![i].pc = "publish", ![i].idx = @ + 1]
    ELSE [relay EXCEPT ![i] = IdleRelay]

(* ticker.C fires and the SELECT runs: it locks the rows it returns.       *)
RelayPoll(i) ==
    /\ relay[i].pc = "tick"
    /\ \E s \in GetUnpublishedEvents(i, FetchLimit) :
          /\ relay' = [relay EXCEPT ![i].pc = "rows",
                                    ![i].batch = [k \in DOMAIN s |-> ScanEvent(s[k])]]
          /\ locks' = [locks EXCEPT ![i] = Range(s)]
          /\ crashed' = [crashed EXCEPT ![i] = [pending |-> {},
                            returned |-> crashed[i].pending \cap Range(s)]]
    /\ UNCHANGED <<cbVars, workerVars, limiterVars, procVars, now, faults, records, outbox, req, brokerVars, consVars>>

(* QueryContext returns an error: logged, continue. *)
RelayPollFail(i) ==
    /\ relay[i].pc = "tick"
    /\ Fault
    /\ UNCHANGED <<cbVars, workerVars, limiterVars, procVars, now, dbVars, req, relayVars, brokerVars, consVars>>

(* The rows are read to the end: the statement, which ran outside any      *)
(* transaction, is over and its row locks are gone before                  *)
(* GetUnpublishedEvents returns.                                           *)
RelayRows(i) ==
    /\ relay[i].pc = "rows"
    /\ locks' = [locks EXCEPT ![i] = {}]
    /\ crashed' = [crashed EXCEPT ![i].returned = {}]
    /\ relay' = IF relay[i].batch = <<>>
                THEN [relay EXCEPT ![i] = IdleRelay]
                ELSE [relay EXCEPT ![i].pc = "publish", ![i].idx = 1]
    /\ UNCHANGED <<cbVars, workerVars, limiterVars, procVars, now, faults, records, outbox, req, brokerVars, consVars>>

(* rows.Scan fails: the error is returned, the statement ends. *)
RelayRowsFail(i) ==
    /\ relay[i].pc = "rows"
    /\ Fault
    /\ locks' = [locks EXCEPT ![i] = {}]
    /\ crashed' = [crashed EXCEPT ![i].returned = {}]
    /\ relay' = [relay EXCEPT ![i] = IdleRelay]
    /\ UNCHANGED <<cbVars, workerVars, limiterVars, procVars, now, records, outbox, req, brokerVars, consVars>>

RelayPublish(i) ==
    /\ relay[i].pc = "publish"
    /\ PublishRaw(Current(i))
    /\ relay' = [relay EXCEPT ![i].pc = "mark"]
    /\ UNCHANGED <<cbVars, workerVars, limiterVars, procVars, crashed, now, faults, dbVars, req, consVars>>

(* Mutant: the failed publish falls through to MarkAsPublished. *)
RelayPublishFailMarks(i) ==
    /\ relay[i].pc = "publish"
    /\ Fault
    /\ relay' = [relay EXCEPT ![i].pc = "mark"]
    /\ UNCHANGED <<cbVars, workerVars, limiterVars, procVars, crashed, now, dbVars, req, brokerVars, consVars>>

RelayPublishFail(i) ==
    /\ relay[i].pc = "publish"
    /\ Fault
    /\ relay' = [relay EXCEPT ![i].pc = "incr"]
    /\ UNCHANGED <<cbVars, workerVars, limiterVars, procVars, crashed, now, dbVars, req, brokerVars, consVars>>

RelayIncrement(i) ==
    /\ relay[i].pc = "incr"
    /\ RowFree(i, Current(i).id)
    /\ outbox' = IncrementRetryCount(Current(i).id, "failed to publish event")
    /\ relay' = NextEvent(i)
    /\ UNCHANGED <<cbVars, workerVars, limiterVars, procVars, crashed, now, faults, records, locks, req, brokerVars, consVars>>

(* The result of IncrementRetryCount is discarded. *)
RelayIncrementFail(i) ==
    /\ relay[i].pc = "incr"
    /\ Fault
    /\ relay' = NextEvent(i)
    /\ UNCHANGED <<cbVars, workerVars, limiterVars, procVars, crashed, now, dbVars, req, brokerVars, consVars>>

RelayMark(i) ==
    /\ relay[i].pc = "mark"
    /\ RowFree(i, Current(i).id)
    /\ outbox' = MarkAsPublished(Current(i).id)
    /\ relay' = NextEvent(i)
    /\ UNCHANGED <<cbVars, workerVars, limiterVars, procVars, crashed, now, faults, records, locks, req, brokerVars, consVars>>

(* Mutant: a failed MarkAsPublished is counted as a failed publish. *)
RelayMarkFailCounts(i) ==
    /\ relay[i].pc = "mark"
    /\ Fault
    /\ outbox' = IncrementRetryCount(Current(i).id, "failed to mark event as published")
    /\ relay' = NextEvent(i)
    /\ UNCHANGED <<cbVars, workerVars, limiterVars, procVars, crashed, now, records, locks, req, brokerVars, consVars>>

(* MarkAsPublished returns an error: logged, continue. *)
RelayMarkFail(i) ==
    /\ relay[i].pc = "mark"
    /\ Fault
    /\ relay' = NextEvent(i)
    /\ UNCHANGED <<cbVars, workerVars, limiterVars, procVars, crashed, now, dbVars, req, brokerVars, consVars>>

----------------------------------------------------------------------------
(* infrastructure/messaging: RabbitMQConsumer.Consume with manual ack, and *)
(* the broker's side of the queue NewRabbitMQConsumer declares: prefetch,  *)
(* x-message-ttl and the dead-letter exchange routing to <queue>-dlq.      *)

(* The message has been in its queue for longer than x-message-ttl; a      *)
(* requeued message keeps the time of its first enqueue.                   *)
Expired(m) == now - m.enq > DLQTTL

(* Mutant: no prefetch limit. *)
DeliverUnbounded(c) ==
    /\ queue[c] # <<>>
    /\ cons[c].channel = "open"
    /\ ~Expired(Head(queue[c]))
    /\ inflight' = [inflight EXCEPT ![c] = Append(@, Head(queue[c]))]
    /\ queue' = [queue EXCEPT ![c] = Tail(@)]
    /\ UNCHANGED <<cbVars, workerVars, limiterVars, procVars, now, faults, dbVars, req, relayVars, sent, cons, acked>>

(* The broker pushes a ready message to the consumer of the queue while    *)
(* fewer than the prefetch count are unacknowledged; an expired message is *)
(* not delivered.                                                          *)
Deliver(c) ==
    /\ queue[c] # <<>>
    /\ cons[c].channel = "open"
    /\ ~Expired(Head(queue[c]))
    /\ Len(inflight[c]) < PrefetchCount
    /\ inflight' = [inflight EXCEPT ![c] = Append(@, Head(queue[c]))]
    /\ queue' = [queue EXCEPT ![c] = Tail(@)]
    /\ UNCHANGED <<cbVars, workerVars, limiterVars, procVars, now, faults, dbVars, req, relayVars, sent, cons, acked>>

(* The broker dead-letters the expired message at the head of the queue:   *)
(* it goes to the queue's own dead-letter queue.                           *)
DeadLetter(c) ==
    /\ queue[c] # <<>>
    /\ Expired(Head(queue[c]))
    /\ dlq' = [dlq EXCEPT ![c] = Append(@, Head(queue[c]))]
    /\ queue' = [queue EXCEPT ![c] = Tail(@)]
    /\ UNCHANGED <<cbVars, workerVars, limiterVars, main, now, faults, dbVars, req, relayVars, sent, consVars>>

(* A body that is not the JSON of an event, and json.Unmarshal of a body   *)
(* into events.EmployeeCheckedOutEvent: Nil stands for the error.          *)
Malformed == [raw |-> "{"]

Unmarshal(body) == IF "raw" \in DOMAIN body THEN Nil ELSE body

(* case msg := <-msgs: the handler is called with msg.Body. *)
Receive(c) ==
    /\ cons[c].pc = "wait"
    /\ inflight[c] # <<>>
    /\ cons' = [cons EXCEPT ![c].pc = "handle", ![c].msg = Head(inflight[c]),
                            ![c].call = "called", ![c].resp = "none"]
    /\ UNCHANGED <<cbVars, workerVars, limiterVars, procVars, now, faults, dbVars, req, relayVars, brokerVars, inflight, acked>>

(* A handler whose external call succeeds at once: it returns nil. *)
HandlerNil(c) ==
    /\ cons[c].pc = "handle"
    /\ cons[c].call = "called"
    /\ Unmarshal(cons[c].msg.body) # Nil
    /\ cons' = [cons EXCEPT ![c].call = "nil"]
    /\ UNCHANGED <<cbVars, workerVars, limiterVars, procVars, now, faults, dbVars, req, relayVars, brokerVars, inflight, acked>>

(* The handler returned nil: msg.Ack(false).  On a channel that is gone    *)
(* the call fails, its error is dropped and the broker has requeued the    *)
(* message already.                                                        *)
HandlerAck(c) ==
    /\ cons[c].pc = "handle"
    /\ cons[c].call = "nil"
    /\ IF cons[c].channel = "open"
       THEN /\ acked' = [acked EXCEPT ![c] = Append(@, cons[c].msg.body.event_id)]
            /\ inflight' = [inflight EXCEPT ![c] = Tail(@)]
       ELSE UNCHANGED <<acked, inflight>>
    /\ cons' = [cons EXCEPT ![c].pc = "wait", ![c].resp = "ack"]
    /\ UNCHANGED <<cbVars, workerVars, limiterVars, procVars, now, faults, dbVars, req, relayVars, brokerVars>>

(* Mutant: a failed message is rejected without requeue, which sends it to *)
(* the dead-letter exchange at once.                                       *)
HandlerNackNoRequeue(c) ==
    /\ cons[c].pc = "handle"
    /\ cons[c].call = "error"
    /\ IF cons[c].channel = "open"
       THEN /\ dlq' = [dlq EXCEPT ![c] = Append(@, cons[c].msg)]
            /\ inflight' = [inflight EXCEPT ![c] = Tail(@)]
       ELSE UNCHANGED <<dlq, inflight>>
    /\ cons' = [cons EXCEPT ![c].pc = "wait", ![c].resp = "nack"]
    /\ UNCHANGED <<cbVars, workerVars, limiterVars, main, now, faults, dbVars, req, relayVars, brokerVars, acked>>

(* Mutant: a requeued message starts a new time-to-live. *)
HandlerNackResetsAge(c) ==
    /\ cons[c].pc = "handle"
    /\ cons[c].call = "error"
    /\ IF cons[c].channel = "open"
       THEN /\ queue' = [queue EXCEPT ![c] = <<[cons[c].msg EXCEPT !.enq = now]>> \o @]
            /\ inflight' = [inflight EXCEPT ![c] = Tail(@)]
       ELSE UNCHANGED <<queue, inflight>>
    /\ cons' = [cons EXCEPT ![c].pc = "wait", ![c].resp = "nack"]
    /\ UNCHANGED <<cbVars, workerVars, limiterVars, procVars, now, faults, dbVars, req, relayVars, sent, acked>>

(* Mutant: a message whose handler has used up its attempts is rejected   *)
(* without requeue, any other failure is requeued.                         *)
HandlerNackDeadLetters(c) ==
    /\ cons[c].pc = "handle"
    /\ cons[c].call = "error"
    /\ IF cons[c].channel = "open"
       THEN /\ inflight' = [inflight EXCEPT ![c] = Tail(@)]
            /\ IF c = LaborCostQueue /\ Unmarshal(cons[c].msg.body) # Nil
               THEN dlq' = [dlq EXCEPT ![c] = Append(@, cons[c].msg)] /\ queue' = queue
               ELSE queue' = [queue EXCEPT ![c] = <<cons[c].msg>> \o @] /\ dlq' = dlq
       ELSE UNCHANGED <<dlq, queue, inflight>>
    /\ cons' = [cons EXCEPT ![c].pc = "wait", ![c].resp = "nack"]
    /\ UNCHANGED <<cbVars, workerVars, limiterVars, main, now, faults, dbVars, req, relayVars, sent, acked>>

(* The handler returned an error: msg.Nack(false, true), and the broker    *)
(* puts the message back at the head of the queue it came from.            *)
HandlerNack(c) ==
    /\ cons[c].pc = "handle"
    /\ cons[c].call = "error"
    /\ IF cons[c].channel = "open"
       THEN /\ queue' = [queue EXCEPT ![c] = <<cons[c].msg>> \o @]
            /\ inflight' = [inflight EXCEPT ![c] = Tail(@)]
       ELSE UNCHANGED <<queue, inflight>>
    /\ cons' = [cons EXCEPT ![c].pc = "wait", ![c].resp = "nack"]
    /\ UNCHANGED <<cbVars, workerVars, limiterVars, procVars, now, faults, dbVars, req, relayVars, sent, acked>>

----------------------------------------------------------------------------
(* infrastructure/external: CircuitBreaker *)

NewCircuitBreaker(failureThreshold, successThreshold) ==
    [state |-> StateClosed, failureCount |-> 0, successCount |-> 0,
     lastFailureTime |-> NoTime,
     failureThreshold |-> failureThreshold, successThreshold |-> successThreshold]

IdleCaller == [pc |-> "idle", op |-> "none", ret |-> TRUE, at |-> NoTime, seq |-> 0]

(* The call op of goroutine t returns r. *)
Return(t, op, r) ==
    [caller EXCEPT ![t] = [pc |-> "idle", op |-> op, ret |-> r, at |-> now,
                           seq |-> 1 - @.seq]]

(* time.Since(cb.lastFailureTime) *)
Since(t) == now - t

(* Mutant: a success outside HALF leaves the failure counter alone. *)
RecordSuccessKeepsCount(t) ==
    /\ caller[t].pc = "idle"
    /\ cb' = IF cb.state = StateHalf
             THEN IF cb.successCount + 1 >= cb.successThreshold
                  THEN [cb EXCEPT !.failureCount = 0, !.state = StateClosed,
                                  !.successCount = 0]
                  ELSE [cb EXCEPT !.failureCount = 0, !.successCount = @ + 1]
             ELSE cb
    /\ caller' = Return(t, "RecordSuccess", TRUE)
    /\ consec' = 0
    /\ UNCHANGED <<now, outboxVars, procVars, workerVars, limiterVars>>

(* Mutant: closing the breaker leaves the trial-success counter as it is. *)
RecordSuccessKeepsTrials(t) ==
    /\ caller[t].pc = "idle"
    /\ cb' = IF cb.state = StateHalf
             THEN IF cb.successCount + 1 >= cb.successThreshold
                  THEN [cb EXCEPT !.failureCount = 0, !.state = StateClosed,
                                  !.successCount = @ + 1]
                  ELSE [cb EXCEPT !.failureCount = 0, !.successCount = @ + 1]
             ELSE [cb EXCEPT !.failureCount = 0]
    /\ caller' = Return(t, "RecordSuccess", TRUE)
    /\ consec' = 0
    /\ UNCHANGED <<now, outboxVars, procVars, workerVars, limiterVars>>

RecordSuccess(t) ==
    /\ caller[t].pc = "idle"
    /\ cb' = IF cb.state = StateHalf
             THEN IF cb.successCount + 1 >= cb.successThreshold
                  THEN [cb EXCEPT !.failureCount = 0, !.state = StateClosed,
                                  !.successCount = 0]
                  ELSE [cb EXCEPT !.failureCount = 0, !.successCount = @ + 1]
             ELSE [cb EXCEPT !.failureCount = 0]
    /\ caller' = Return(t, "RecordSuccess", TRUE)
    /\ consec' = 0
    /\ UNCHANGED <<now, outboxVars, procVars, workerVars, limiterVars>>

(* Mutant: a failure leaves the trial-success counter as it is. *)
RecordFailureKeepsTrials(t) ==
    /\ caller[t].pc = "idle"
    /\ cb.failureCount < MaxRun
    /\ cb' = [cb EXCEPT !.failureCount = @ + 1,
                        !.lastFailureTime = now,
                        !.state = IF cb.failureCount + 1 >= cb.failureThreshold
                                  THEN StateOpen ELSE @]
    /\ caller' = Return(t, "RecordFailure", TRUE)
    /\ consec' = Min(consec + 1, MaxRun)
    /\ UNCHANGED <<now, outboxVars, procVars, workerVars, limiterVars>>

RecordFailure(t) ==
    /\ caller[t].pc = "idle"
    /\ cb.failureCount < MaxRun
    /\ cb' = [cb EXCEPT !.failureCount = @ + 1,
                        !.lastFailureTime = now,
                        !.successCount = 0,
                        !.state = IF cb.failureCount + 1 >= cb.failureThreshold
                                  THEN StateOpen ELSE @]
    /\ caller' = Return(t, "RecordFailure", TRUE)
    /\ consec' = Min(consec + 1, MaxRun)
    /\ UNCHANGED <<now, outboxVars, procVars, workerVars, limiterVars>>

(* Mutant: the timeout test is time.Since(...) >= cb.timeout. *)
CanExecuteAtTimeout(t) ==
    /\ caller[t].pc = "idle"
    /\ caller' = IF cb.state = StateOpen
                 THEN IF Since(cb.lastFailureTime) >= ResetTimeoutS
                      THEN [caller EXCEPT ![t].pc = "upgrade"]
                      ELSE Return(t, "CanExecute", FALSE)
                 ELSE Return(t, "CanExecute", TRUE)
    /\ UNCHANGED <<now, cb, consec, outboxVars, procVars, workerVars, limiterVars>>

(* CanExecute under the read lock: the state is read and, when OPEN, the   *)
(* time since the last failure; past the timeout the read lock is given up *)
(* for the write lock.                                                     *)
CanExecute(t) ==
    /\ caller[t].pc = "idle"
    /\ caller' = IF cb.state = StateOpen
                 THEN IF Since(cb.lastFailureTime) > ResetTimeoutS
                      THEN [caller EXCEPT ![t].pc = "upgrade"]
                      ELSE Return(t, "CanExecute", FALSE)
                 ELSE Return(t, "CanExecute", TRUE)
    /\ UNCHANGED <<now, cb, consec, outboxVars, procVars, workerVars, limiterVars>>

(* CanExecute holding the write lock: the state is set without being read  *)
(* again.                                                                  *)
CanExecuteUpgrade(t) ==
    /\ caller[t].pc = "upgrade"
    /\ cb' = [cb EXCEPT !.state = StateHalf, !.failureCount = 0]
    /\ caller' = Return(t, "CanExecute", TRUE)
    /\ UNCHANGED <<now, consec, outboxVars, procVars, workerVars, limiterVars>>

(* The clock of the breaker's host advances. *)
BreakerTick ==
    /\ now < MaxClock
    /\ now' = now + 1
    /\ UNCHANGED <<cbVars, outboxVars, procVars, workerVars, limiterVars>>

----------------------------------------------------------------------------
(* application/handlers: LaborCostReporter.HandleCheckedOut, the retry     *)
(* loop around LegacyLaborCostClient.RecordLaborCost.  Durations are whole *)
(* clock units and the multiplier is a whole number, so that               *)
(* time.Duration(float64(backoff) * multiplier) is exact.                  *)

(* The configuration NewLaborCostReporter installs, with the attempts and  *)
(* the cap scaled to the model.                                            *)
NewLaborCostReporter ==
    [MaxAttempts |-> MaxRun, InitialBackoff |-> 1, MaxBackoff |-> MaxDelay,
     BackoffMultiplier |-> 2]

RetryConfigs ==
    [MaxAttempts : 1..MaxRun, InitialBackoff : 1..MaxDelay, MaxBackoff : 1..MaxDelay,
     BackoffMultiplier : 1..MaxMultiplier]

IdleHandler ==
    [pc |-> "idle", attempt |-> 0, backoff |-> 0, seq |-> 0, res |-> "none",
     calls |-> 0, http |-> 0, rejects |-> 0, sleeps |-> <<>>, slept |-> 0]

RECURSIVE SeqSum(_)
SeqSum(s) == IF s = <<>> THEN 0 ELSE Head(s) + SeqSum(Tail(s))

(* A message arrives: attempt := 0, backoff := InitialBackoff. *)
HandleCheckedOut ==
    /\ handler.pc = "idle"
    /\ handler.res = "none"
    /\ handler' = [IdleHandler EXCEPT !.pc = "loop",
                                      !.backoff = retryConfig.InitialBackoff]
    /\ UNCHANGED <<now, retryConfig, cbVars, outboxVars, procVars, limiterVars>>

(* for attempt < MaxAttempts: RecordLaborCost is called; past the loop the *)
(* handler returns "max retries exceeded".                                 *)
RetryLoop ==
    /\ handler.pc = "loop"
    /\ handler' = IF handler.attempt < retryConfig.MaxAttempts
                  THEN [handler EXCEPT !.pc = "canExecute", !.calls = @ + 1,
                                       !.seq = caller[1].seq]
                  ELSE [handler EXCEPT !.pc = "done", !.res = "max retries exceeded"]
    /\ UNCHANGED <<now, retryConfig, cbVars, outboxVars, procVars, limiterVars>>

(* RecordLaborCost: c.circuitBreaker.CanExecute() runs. *)
RecordLaborCostCanExecute ==
    /\ handler.pc = "canExecute"
    /\ caller[1].seq = handler.seq
    /\ CanExecute(1) \/ CanExecuteUpgrade(1)

(* Mutant: a refused call is tried again without being counted. *)
RecordLaborCostCheckedFree ==
    /\ handler.pc = "canExecute"
    /\ caller[1].seq # handler.seq
    /\ handler' = IF caller[1].ret
                  THEN [handler EXCEPT !.pc = "http"]
                  ELSE [handler EXCEPT !.pc = "loop", !.rejects = @ + 1]
    /\ UNCHANGED <<now, retryConfig, cbVars, outboxVars, procVars, limiterVars>>

(* Mutant: a refused call is reported to the breaker as a failure. *)
RecordLaborCostCheckedRecords ==
    /\ handler.pc = "canExecute"
    /\ caller[1].seq # handler.seq
    /\ handler' = IF caller[1].ret
                  THEN [handler EXCEPT !.pc = "http"]
                  ELSE [handler EXCEPT !.pc = "recordFailure", !.rejects = @ + 1,
                                       !.seq = caller[1].seq]
    /\ UNCHANGED <<now, retryConfig, cbVars, outboxVars, procVars, limiterVars>>

(* RecordLaborCost: a refused call returns an error at once, an allowed    *)
(* one goes on to the HTTP request.                                        *)
RecordLaborCostChecked ==
    /\ handler.pc = "canExecute"
    /\ caller[1].seq # handler.seq
    /\ handler' = IF caller[1].ret
                  THEN [handler EXCEPT !.pc = "http"]
                  ELSE [handler EXCEPT !.pc = "failed", !.rejects = @ + 1]
    /\ UNCHANGED <<now, retryConfig, cbVars, outboxVars, procVars, limiterVars>>

(* c.httpClient.Do(req): the legacy API answers 200/201 or the call fails. *)
LegacyAPICall ==
    /\ handler.pc = "http"
    /\ \E ok \in BOOLEAN :
          handler' = [handler EXCEPT !.pc = IF ok THEN "recordSuccess"
                                                 ELSE "recordFailure",
                                     !.http = @ + 1,
                                     !.seq = caller[1].seq]
    /\ UNCHANGED <<now, retryConfig, cbVars, outboxVars, procVars, limiterVars>>

(* RecordLaborCost: the outcome is reported to the breaker. *)
RecordLaborCostRecord ==
    /\ handler.pc \in {"recordSuccess", "recordFailure"}
    /\ caller[1].seq = handler.seq
    /\ IF handler.pc = "recordSuccess" THEN RecordSuccess(1) ELSE RecordFailure(1)

(* RecordLaborCost returns nil or the error of the call. *)
RecordLaborCostReturn ==
    /\ handler.pc \in {"recordSuccess", "recordFailure"}
    /\ caller[1].seq # handler.seq
    /\ handler' = IF handler.pc = "recordSuccess"
                  THEN [handler EXCEPT !.pc = "done", !.res = "ok"]
                  ELSE [handler EXCEPT !.pc = "failed"]
    /\ UNCHANGED <<now, retryConfig, cbVars, outboxVars, procVars, limiterVars>>

(* Mutant: the attempts are exhausted one failure early. *)
RetryFailedEarly ==
    /\ handler.pc = "failed"
    /\ handler' = IF handler.attempt + 1 >= retryConfig.MaxAttempts - 1
                  THEN [handler EXCEPT !.attempt = @ + 1, !.pc = "done",
                                       !.res = "failed after attempts"]
                  ELSE [handler EXCEPT !.attempt = @ + 1, !.pc = "sleep"]
    /\ UNCHANGED <<now, retryConfig, cbVars, outboxVars, procVars, limiterVars>>

(* Mutant: the attempts are exhausted one failure late. *)
RetryFailedLate ==
    /\ handler.pc = "failed"
    /\ handler' = IF handler.attempt + 1 > retryConfig.MaxAttempts
                  THEN [handler EXCEPT !.attempt = @ + 1, !.pc = "done",
                                       !.res = "failed after attempts"]
                  ELSE [handler EXCEPT !.attempt = @ + 1, !.pc = "sleep"]
    /\ UNCHANGED <<now, retryConfig, cbVars, outboxVars, procVars, limiterVars>>

(* err != nil: attempt++; with no attempt left the handler returns the     *)
(* error, otherwise it goes to sleep.                                      *)
RetryFailed ==
    /\ handler.pc = "failed"
    /\ handler' = IF handler.attempt + 1 >= retryConfig.MaxAttempts
                  THEN [handler EXCEPT !.attempt = @ + 1, !.pc = "done",
                                       !.res = "failed after attempts"]
                  ELSE [handler EXCEPT !.attempt = @ + 1, !.pc = "sleep"]
    /\ UNCHANGED <<now, retryConfig, cbVars, outboxVars, procVars, limiterVars>>

(* time.Sleep(backoff); backoff *= BackoffMultiplier, capped at MaxBackoff. *)
RetrySleep ==
    /\ handler.pc = "sleep"
    /\ now' = now + handler.backoff
    /\ handler' = [handler EXCEPT
                      !.pc = "loop",
                      !.sleeps = Append(@, handler.backoff),
                      !.slept = @ + (now' - now),
                      !.backoff = Min(handler.backoff * retryConfig.BackoffMultiplier,
                                      retryConfig.MaxBackoff)]
    /\ UNCHANGED <<retryConfig, cbVars, outboxVars, procVars, limiterVars>>

----------------------------------------------------------------------------
(* infrastructure/external: RateLimiter.  One clock unit is 100 ms, a      *)
(* minute is Minute units, and tokens are counted in units of 1/Minute of  *)
(* a token, so that refillRate tokens per minute is refillRate units per   *)
(* clock unit.                                                             *)

NewRateLimiter(requestsPerMinute) ==
    [tokens |-> requestsPerMinute * Minute, maxTokens |-> requestsPerMinute * Minute,
     refillRate |-> requestsPerMinute, lastRefillAt |-> 0, mu |-> 0]

(* A goroutine outside WaitForToken.  Inside: budget is the maxWait of the *)
(* caller, maxWait the argument of the current recursive call, wait the    *)
(* computed waitDuration, depth the number of calls below the first, slept *)
(* the time spent in time.Sleep.                                           *)
IdleWaiter ==
    [pc |-> "idle", budget |-> 0, maxWait |-> 0, wait |-> 0, depth |-> 0, slept |-> 0,
     res |-> "none", ret |-> 0]

(* The maxWait arguments tried: none, half a minute, a minute, two. *)
MaxWaits == {0, Minute \div 2, Minute, 2 * Minute}

(* A caller enters WaitForToken(maxWait). *)
WaitForTokenCall(t, maxWait) ==
    /\ lim[t].pc = "idle"
    /\ lim' = [lim EXCEPT ![t] = [IdleWaiter EXCEPT !.pc = "lock", !.budget = maxWait,
                                                    !.maxWait = maxWait]]
    /\ UNCHANGED <<now, rl, cbVars, workerVars, outboxVars, procVars>>

(* rl.mu.Lock(), of the first call and of every recursive call alike: the  *)
(* mutex is not reentrant.                                                 *)
WaitForTokenLock(t) ==
    /\ lim[t].pc = "lock"
    /\ rl.mu = 0
    /\ rl' = [rl EXCEPT !.mu = t]
    /\ lim' = [lim EXCEPT ![t].pc = "locked"]
    /\ UNCHANGED <<now, cbVars, workerVars, outboxVars, procVars>>

(* min(rl.tokens + elapsed * rl.refillRate, rl.maxTokens) *)
Refilled == Min(rl.tokens + (now - rl.lastRefillAt) * rl.refillRate, rl.maxTokens)

(* tokenDeficit / rl.refillRate as a time.Duration *)
WaitDuration(tokens) == (Minute - tokens) \div rl.refillRate

(* Mutant: the failing call takes what the bucket holds. *)
WaitForTokenDrains(t) ==
    /\ lim[t].pc = "locked"
    /\ IF Refilled >= Minute
       THEN /\ rl' = [rl EXCEPT !.tokens = Refilled - Minute, !.lastRefillAt = now,
                                !.mu = 0]
            /\ lim' = [lim EXCEPT ![t].pc = "idle",
                                  ![t].res = IF lim[t].depth = 0 THEN "ok" ELSE "fatal",
                                  ![t].ret = lim[t].slept]
       ELSE IF WaitDuration(Refilled) > lim[t].maxWait
            THEN /\ rl' = [rl EXCEPT !.tokens = 0, !.lastRefillAt = now, !.mu = 0]
                 /\ lim' = [lim EXCEPT ![t].pc = "idle",
                                       ![t].res = IF lim[t].depth = 0 THEN "error"
                                                                      ELSE "fatal",
                                       ![t].ret = lim[t].slept]
            ELSE /\ rl' = [rl EXCEPT !.tokens = Refilled, !.lastRefillAt = now]
                 /\ lim' = [lim EXCEPT ![t].pc = "sleep",
                                       ![t].wait = WaitDuration(Refilled)]
    /\ UNCHANGED <<now, cbVars, workerVars, outboxVars, procVars>>

(* The body of WaitForToken under the mutex: refill, then a token is taken *)
(* and the call returns, or the wait is too long and it returns an error,  *)
(* or it goes to sleep holding the mutex.  A return runs the deferred      *)
(* Unlock; below the first call the callers' deferred Unlocks would follow *)
(* on a mutex already unlocked, which is fatal.                            *)
WaitForToken(t) ==
    /\ lim[t].pc = "locked"
    /\ IF Refilled >= Minute
       THEN /\ rl' = [rl EXCEPT !.tokens = Refilled - Minute, !.lastRefillAt = now,
                                !.mu = 0]
            /\ lim' = [lim EXCEPT ![t].pc = "idle",
                                  ![t].res = IF lim[t].depth = 0 THEN "ok" ELSE "fatal",
                                  ![t].ret = lim[t].slept]
       ELSE IF WaitDuration(Refilled) > lim[t].maxWait
            THEN /\ rl' = [rl EXCEPT !.tokens = Refilled, !.lastRefillAt = now, !.mu = 0]
                 /\ lim' = [lim EXCEPT ![t].pc = "idle",
                                       ![t].res = IF lim[t].depth = 0 THEN "error"
                                                                      ELSE "fatal",
                                       ![t].ret = lim[t].slept]
            ELSE /\ rl' = [rl EXCEPT !.tokens = Refilled, !.lastRefillAt = now]
                 /\ lim' = [lim EXCEPT ![t].pc = "sleep",
                                       ![t].wait = WaitDuration(Refilled)]
    /\ UNCHANGED <<now, cbVars, workerVars, outboxVars, procVars>>

(* time.Sleep(waitDuration + 100ms), then rl.WaitForToken(maxWait -        *)
(* waitDuration) is called with the mutex still held.                      *)
WaitForTokenSleep(t) ==
    /\ lim[t].pc = "sleep"
    /\ now' = now + lim[t].wait + SleepBuffer
    /\ lim' = [lim EXCEPT ![t].pc = "lock",
                          ![t].slept = @ + lim[t].wait + SleepBuffer,
                          ![t].maxWait = @ - lim[t].wait,
                          ![t].depth = @ + 1]
    /\ UNCHANGED <<rl, cbVars, workerVars, outboxVars, procVars>>

(* Time passes between calls. *)
LimiterAdvance ==
    /\ \E d \in {Minute \div 4, Minute} :
          /\ now + d <= MaxMinutes * Minute
          /\ now' = now + d
    /\ UNCHANGED <<limiterVars, cbVars, workerVars, outboxVars, procVars>>

----------------------------------------------------------------------------
(* cmd/api: the workers.  startLaborCostWorker and startEmailWorker run    *)
(* Consume with the handler of their queue and close the consumer when it  *)
(* returns; main cancels the context of all loops and exits after a pause. *)

Cancelled == main.pc # "serving"

(* Mutant: the error of json.Unmarshal is dropped and the handler goes on. *)
HandlerCallIgnoresUnmarshal(c) ==
    /\ cons[c].pc = "handle"
    /\ cons[c].call = "called"
    /\ cons' = [cons EXCEPT ![c].call = "running"]
    /\ handler' = IF c = LaborCostQueue
                  THEN [IdleHandler EXCEPT !.pc = "loop",
                                           !.backoff = retryConfig.InitialBackoff]
                  ELSE handler
    /\ UNCHANGED <<now, retryConfig, cbVars, limiterVars, procVars, faults, dbVars, req, relayVars, brokerVars, inflight, acked>>

(* handler(ctx, msg.Body): both handlers unmarshal the body first and      *)
(* return the error of that at once; the labor-cost handler then enters    *)
(* its retry loop, the email handler sends the mail.                       *)
HandlerCall(c) ==
    /\ cons[c].pc = "handle"
    /\ cons[c].call = "called"
    /\ IF Unmarshal(cons[c].msg.body) = Nil
       THEN /\ cons' = [cons EXCEPT ![c].call = "error"]
            /\ handler' = handler
       ELSE /\ cons' = [cons EXCEPT ![c].call = "running"]
            /\ handler' = IF c = LaborCostQueue
                          THEN [IdleHandler EXCEPT
                                   !.pc = "loop",
                                   !.backoff = retryConfig.InitialBackoff]
                          ELSE handler
    /\ UNCHANGED <<now, retryConfig, cbVars, limiterVars, procVars, faults, dbVars, req, relayVars, brokerVars, inflight, acked>>

(* EmailNotifier.HandleCheckedOut: smtp.SendMail succeeds or fails. *)
SendEmail(c) ==
    /\ c = EmailQueue
    /\ cons[c].pc = "handle"
    /\ cons[c].call = "running"
    /\ \E ok \in BOOLEAN :
          cons' = [cons EXCEPT ![c].call = IF ok THEN "nil" ELSE "error"]
    /\ UNCHANGED <<cbVars, workerVars, limiterVars, procVars, now, faults, dbVars, req, relayVars, brokerVars, inflight, acked>>

(* LaborCostReporter.HandleCheckedOut returns nil or its error. *)
HandlerReturn(c) ==
    /\ c = LaborCostQueue
    /\ cons[c].pc = "handle"
    /\ cons[c].call = "running"
    /\ handler.pc = "done"
    /\ cons' = [cons EXCEPT ![c].call = IF handler.res = "ok" THEN "nil" ELSE "error"]
    /\ UNCHANGED <<cbVars, workerVars, limiterVars, procVars, now, faults, dbVars, req, relayVars, brokerVars, inflight, acked>>

(* main: cancel(). *)
Cancel ==
    /\ main.pc = "serving"
    /\ main' = [pc |-> "grace", cancelAt |-> now]
    /\ UNCHANGED <<now, dlq, cbVars, workerVars, limiterVars, outboxVars>>

(* case <-ctx.Done(): Consume returns ctx.Err(). *)
ConsumeDone(c) ==
    /\ cons[c].pc = "wait"
    /\ Cancelled
    /\ cons' = [cons EXCEPT ![c].pc = "returned", ![c].ret = "context canceled"]
    /\ UNCHANGED <<cbVars, workerVars, limiterVars, procVars, now, faults, dbVars, req, relayVars, brokerVars, inflight, acked>>

(* The connection to the broker breaks: the deliveries channel is closed   *)
(* and the broker requeues what the consumer had not acknowledged.         *)
ConnectionLost(c) ==
    /\ Fault
    /\ cons[c].channel = "open"
    /\ cons' = [cons EXCEPT ![c].channel = "lost"]
    /\ queue' = [queue EXCEPT ![c] = inflight[c] \o @]
    /\ inflight' = [inflight EXCEPT ![c] = <<>>]
    /\ UNCHANGED <<cbVars, workerVars, limiterVars, procVars, now, dbVars, req, relayVars, sent, acked>>

(* case msg, ok := <-msgs with ok false: Consume returns "channel closed". *)
ConsumeClosed(c) ==
    /\ cons[c].pc = "wait"
    /\ cons[c].channel = "lost"
    /\ cons' = [cons EXCEPT ![c].pc = "returned", ![c].ret = "channel closed"]
    /\ UNCHANGED <<cbVars, workerVars, limiterVars, procVars, now, faults, dbVars, req, relayVars, brokerVars, inflight, acked>>

(* The worker logs the error of Consume and returns: the deferred          *)
(* consumer.Close() closes the channel and the connection, and the broker  *)
(* requeues what was delivered and not acknowledged.                       *)
Close(c) ==
    /\ cons[c].pc = "returned"
    /\ cons' = [cons EXCEPT ![c].pc = "closed", ![c].channel = "closed"]
    /\ queue' = [queue EXCEPT ![c] = inflight[c] \o @]
    /\ inflight' = [inflight EXCEPT ![c] = <<>>]
    /\ UNCHANGED <<cbVars, workerVars, limiterVars, procVars, now, faults, dbVars, req, relayVars, sent, acked>>

(* startOutboxPublisher, case <-ctx.Done(): the relay loop returns. *)
RelayDone(i) ==
    /\ relay[i].pc = "tick"
    /\ Cancelled
    /\ relay' = [relay EXCEPT ![i].pc = "returned"]
    /\ UNCHANGED <<cbVars, workerVars, limiterVars, procVars, crashed, now, faults, dbVars, req, brokerVars, consVars>>

(* A goroutine of the process can take a step without waiting: a consumer  *)
(* outside time.Sleep and outside an idle select, a delivery the broker    *)
(* can push, the relay outside its wait for the ticker.                    *)
Sleeping == /\ cons[LaborCostQueue].pc = "handle"
            /\ cons[LaborCostQueue].call = "running"
            /\ handler.pc = "sleep"

Runnable(c) ==
    \/ cons[c].pc = "returned"
    \/ cons[c].pc = "handle" /\ ~(c = LaborCostQueue /\ Sleeping)
    \/ cons[c].pc = "wait" /\ (Cancelled \/ inflight[c] # <<>> \/ cons[c].channel = "lost")
    \/ /\ queue[c] # <<>> /\ cons[c].channel = "open"
       /\ Len(inflight[c]) < PrefetchCount /\ ~Expired(Head(queue[c]))

RelayRunnable(i) ==
    \/ relay[i].pc \notin {"tick", "returned"}
    \/ relay[i].pc = "tick" /\ Cancelled

Blocked ==
    /\ \A c \in Queues : ~Runnable(c)
    /\ ~RelayRunnable(1)

(* time.Sleep(backoff) of the retry loop, in a process whose other         *)
(* goroutines are waiting and whose main goroutine, if it is in its pause, *)
(* does not wake first.                                                    *)
BackoffSleep ==
    /\ Blocked
    /\ main.pc = "grace" => now + handler.backoff <= main.cancelAt + GraceS
    /\ RetrySleep

(* main: time.Sleep(2 * time.Second) is over and main returns, which ends  *)
(* the process whatever its goroutines are doing.                          *)
MainExit ==
    /\ main.pc = "grace"
    /\ Blocked
    /\ Sleeping => now + handler.backoff > main.cancelAt + GraceS
    /\ main' = [main EXCEPT !.pc = "exited"]
    /\ now' = IF now < main.cancelAt + GraceS THEN main.cancelAt + GraceS ELSE now
    /\ UNCHANGED <<dlq, cbVars, workerVars, limiterVars, outboxVars>>

----------------------------------------------------------------------------
(* Environment *)

Tick ==
    /\ now < MaxTime
    /\ now' = now + 1
    /\ UNCHANGED <<cbVars, workerVars, limiterVars, procVars, faults, dbVars, req, relayVars, brokerVars, consVars>>

Unpublished ==
    {k \in DOMAIN outbox : /\ ~outbox[k].published
                           /\ outbox[k].event_type = EventTypeEmployeeCheckedOut}

(* Process instance i dies and is started again: its requests end without  *)
(* commit, its database session and the locks of that session are gone,    *)
(* its relay goroutine starts over.  The tables are untouched.             *)
Crash(i) ==
    /\ Fault
    /\ req' = [q \in Requests |-> IF ServedBy(q) = i THEN IdleReq ELSE req[q]]
    /\ relay' = [relay EXCEPT ![i] = IdleRelay]
    /\ locks' = [locks EXCEPT ![i] = {}]
    /\ crashed' = [crashed EXCEPT ![i] = [pending |-> Unpublished, returned |-> {}]]
    /\ UNCHANGED <<cbVars, workerVars, limiterVars, procVars, now, records, outbox, brokerVars, consVars>>

----------------------------------------------------------------------------
(* Specifications *)

Init ==
    /\ now = 0
    /\ faults = 0
    /\ records = <<>>
    /\ outbox = <<>>
    /\ locks = [i \in Instances |-> {}]
    /\ req = [q \in Requests |-> IdleReq]
    /\ relay = [i \in Instances |-> IdleRelay]
    /\ sent = [e \in 1..MaxEvents |-> 0]
    /\ queue = [c \in Queues |-> <<>>]
    /\ inflight = [c \in Queues |-> <<>>]
    /\ cons = [c \in Queues |-> IdleCons]
    /\ acked = [c \in Queues |-> <<>>]
    /\ crashed = [i \in Instances |-> [pending |-> {}, returned |-> {}]]
    /\ cb = NewCircuitBreaker(MaxThreshold, 1)
    /\ caller = [t \in Callers |-> IdleCaller]
    /\ consec = 0
    /\ retryConfig = NewLaborCostReporter
    /\ handler = IdleHandler
    /\ rl = NewRateLimiter(MaxRate)
    /\ lim = [t \in Callers |-> IdleWaiter]
    /\ dlq = [c \in Queues |-> <<>>]
    /\ main = Running

RequestStep(q) ==
    \/ \E e \in Employees : HandleCheckIn(q, e)
    \/ CheckOut(q)
    \/ CheckIn(q)
    \/ TxExec(q)
    \/ TxCommit(q)

RequestFail(q) ==
    \/ CheckOutFindFail(q)
    \/ CheckInFindFail(q)
    \/ TxFail(q)

RelayStep(i) ==
    \/ RelayPoll(i)
    \/ RelayRows(i)
    \/ RelayPublish(i)
    \/ RelayIncrement(i)
    \/ RelayMark(i)

RelayFail(i) ==
    \/ RelayPollFail(i)
    \/ RelayRowsFail(i)
    \/ RelayPublishFail(i)
    \/ RelayIncrementFail(i)
    \/ RelayMarkFail(i)

(* The outbox and its relay: requests one at a time, every relay instance, *)
(* failures of the database and the broker, crashes.                       *)
Next ==
    \/ Tick
    \/ RequestStep(1)
    \/ RequestFail(1)
    \/ \E i \in Instances : RelayStep(i)
    \/ \E i \in Instances : RelayFail(i)
    \/ \E i \in Instances : Crash(i)

Spec == Init /\ [][Next]_vars

(* The same with the relay loop kept running: each relay goroutine goes on *)
(* taking steps, and the failures are finitely many.                       *)
FairNext ==
    \/ Tick
    \/ RequestStep(1)
    \/ \E i \in Instances : RelayStep(i)
    \/ \E i \in Instances : RelayFail(i)
    \/ \E i \in Instances : Crash(i)

FairSpec == Init /\ [][FairNext]_vars /\ \A i \in Instances : WF_vars(RelayStep(i))

(* Scenario A: a failure-free run with one process instance: its request   *)
(* handler, its relay goroutine and the two consumers, all kept running.   *)
ScenarioNext ==
    \/ Tick
    \/ RequestStep(1)
    \/ RelayPoll(1)
    \/ RelayRows(1)
    \/ RelayPublish(1)
    \/ RelayMark(1)
    \/ \E c \in Queues : Deliver(c)
    \/ \E c \in Queues : Receive(c)
    \/ \E c \in Queues : HandlerNil(c)
    \/ \E c \in Queues : HandlerAck(c)

ScenarioSpec ==
    /\ Init
    /\ [][ScenarioNext]_vars
    /\ WF_vars(RelayPoll(1) \/ RelayRows(1) \/ RelayPublish(1) \/ RelayMark(1))
    /\ \A c \in Queues : WF_vars(Deliver(c) \/ Receive(c) \/ HandlerNil(c)
                                       \/ HandlerAck(c))

(* The circuit breaker driven by one goroutine, as the labor-cost worker    *)
(* does, with any order of calls, for every pair of thresholds.            *)
BreakerInit ==
    /\ now = 0
    /\ faults = 0
    /\ records = <<>>
    /\ outbox = <<>>
    /\ locks = [i \in Instances |-> {}]
    /\ req = [q \in Requests |-> IdleReq]
    /\ relay = [i \in Instances |-> IdleRelay]
    /\ sent = [e \in 1..MaxEvents |-> 0]
    /\ queue = [c \in Queues |-> <<>>]
    /\ inflight = [c \in Queues |-> <<>>]
    /\ cons = [c \in Queues |-> IdleCons]
    /\ acked = [c \in Queues |-> <<>>]
    /\ crashed = [i \in Instances |-> [pending |-> {}, returned |-> {}]]
    /\ cb \in {NewCircuitBreaker(f, s) : f \in 1..MaxThreshold, s \in 1..MaxThreshold}
    /\ caller = [t \in Callers |-> IdleCaller]
    /\ consec = 0
    /\ retryConfig = NewLaborCostReporter
    /\ handler = IdleHandler
    /\ rl = NewRateLimiter(MaxRate)
    /\ lim = [t \in Callers |-> IdleWaiter]
    /\ dlq = [c \in Queues |-> <<>>]
    /\ main = Running

BreakerNext ==
    \/ BreakerTick
    \/ CanExecute(1)
    \/ CanExecuteUpgrade(1)
    \/ RecordSuccess(1)
    \/ RecordFailure(1)

BreakerSpec == BreakerInit /\ [][BreakerNext]_vars

(* The circuit breaker shared by several goroutines whose calls interleave *)
(* wherever the mutex is not held.                                         *)
ConcurrentBreakerNext ==
    \/ BreakerTick
    \/ \E t \in Callers : CanExecute(t)
    \/ \E t \in Callers : CanExecuteUpgrade(t)
    \/ \E t \in Callers : RecordSuccess(t)
    \/ \E t \in Callers : RecordFailure(t)

ConcurrentBreakerSpec == BreakerInit /\ [][ConcurrentBreakerNext]_vars

(* Everything outside the labor-cost worker and the rate limiter at rest. *)
QuietOutbox ==
    /\ now = 0
    /\ faults = 0
    /\ records = <<>>
    /\ outbox = <<>>
    /\ locks = [i \in Instances |-> {}]
    /\ req = [q \in Requests |-> IdleReq]
    /\ relay = [i \in Instances |-> IdleRelay]
    /\ sent = [e \in 1..MaxEvents |-> 0]
    /\ queue = [c \in Queues |-> <<>>]
    /\ inflight = [c \in Queues |-> <<>>]
    /\ cons = [c \in Queues |-> IdleCons]
    /\ acked = [c \in Queues |-> <<>>]
    /\ crashed = [i \in Instances |-> [pending |-> {}, returned |-> {}]]
    /\ dlq = [c \in Queues |-> <<>>]
    /\ main = Running

(* The rate limiter called from several goroutines, for every rate. *)
LimiterInit ==
    /\ QuietOutbox
    /\ cb = NewCircuitBreaker(MaxThreshold, 1)
    /\ caller = [t \in Callers |-> IdleCaller]
    /\ consec = 0
    /\ retryConfig = NewLaborCostReporter
    /\ handler = IdleHandler
    /\ rl \in {NewRateLimiter(n) : n \in 1..MaxRate}
    /\ lim = [t \in Callers |-> IdleWaiter]

LimiterNext ==
    \/ LimiterAdvance
    \/ \E t \in Callers, maxWait \in MaxWaits : WaitForTokenCall(t, maxWait)
    \/ \E t \in Callers : WaitForTokenLock(t)
    \/ \E t \in Callers : WaitForToken(t)
    \/ \E t \in Callers : WaitForTokenSleep(t)

LimiterSpec == LimiterInit /\ [][LimiterNext]_vars

(* The labor-cost worker handling one message: the retry loop, the client  *)
(* and its breaker, for every retry configuration and pair of thresholds,  *)
(* the goroutine kept running.                                             *)
WorkerInit ==
    /\ QuietOutbox
    /\ cb \in {NewCircuitBreaker(f, s) : f \in 1..MaxThreshold, s \in 1..MaxThreshold}
    /\ caller = [t \in Callers |-> IdleCaller]
    /\ consec = 0
    /\ retryConfig \in RetryConfigs
    /\ handler = IdleHandler
    /\ rl = NewRateLimiter(MaxRate)
    /\ lim = [t \in Callers |-> IdleWaiter]

WorkerStep ==
    \/ HandleCheckedOut
    \/ RetryLoop
    \/ RecordLaborCostCanExecute
    \/ RecordLaborCostChecked
    \/ LegacyAPICall
    \/ RecordLaborCostRecord
    \/ RecordLaborCostReturn
    \/ RetryFailed
    \/ RetrySleep

WorkerNext == BreakerTick \/ WorkerStep

WorkerSpec == WorkerInit /\ [][WorkerNext]_vars /\ WF_vars(WorkerStep)

(* What the exchange has routed to a queue: the message of a CheckedOut    *)
(* event, or one whose body is not an event.                               *)
Published(k) ==
    [type |-> EventTypeEmployeeCheckedOut,
     body |-> MarshalCheckedOut(k, [id |-> k, emp |-> "E1", checkInAt |-> 0,
                                    checkOutAt |-> 0, hours |-> 0]),
     enq |-> 0]

Poison == [type |-> EventTypeEmployeeCheckedOut, body |-> Malformed, enq |-> 0]

Messages == {Published(k) : k \in 1..(MaxMessages - 1)} \cup {Poison}

Backlogs ==
    {s \in UNION {[1..n -> Messages] : n \in 0..MaxMessages} :
        \A a, b \in DOMAIN s : s[a] = s[b] => a = b}

(* The two consumers and their handlers, each queue holding a backlog that *)
(* the fanout exchange routed to both, all goroutines and the broker kept  *)
(* running while the clock advances past the time-to-live.                 *)
ConsumerInit ==
    /\ now = 0
    /\ faults = 0
    /\ records = <<>>
    /\ outbox = <<>>
    /\ locks = [i \in Instances |-> {}]
    /\ req = [q \in Requests |-> IdleReq]
    /\ relay = [i \in Instances |-> IdleRelay]
    /\ sent = [e \in 1..MaxEvents |-> 0]
    /\ \E s \in Backlogs : queue = [c \in Queues |-> s]
    /\ inflight = [c \in Queues |-> <<>>]
    /\ cons = [c \in Queues |-> IdleCons]
    /\ acked = [c \in Queues |-> <<>>]
    /\ crashed = [i \in Instances |-> [pending |-> {}, returned |-> {}]]
    /\ dlq = [c \in Queues |-> <<>>]
    /\ main = Running
    /\ cb = NewCircuitBreaker(MaxThreshold, 1)
    /\ caller = [t \in Callers |-> IdleCaller]
    /\ consec = 0
    /\ retryConfig = NewLaborCostReporter
    /\ handler = IdleHandler
    /\ rl = NewRateLimiter(MaxRate)
    /\ lim = [t \in Callers |-> IdleWaiter]

Elapse ==
    /\ now <= DLQTTL
    /\ now' = now + 1
    /\ UNCHANGED <<cbVars, workerVars, limiterVars, procVars, outboxVars>>

BrokerStep(c) ==
    \/ Deliver(c)
    \/ DeadLetter(c)

ConsumeStep(c) ==
    \/ Receive(c)
    \/ HandlerCall(c)
    \/ SendEmail(c)
    \/ HandlerReturn(c)
    \/ HandlerAck(c)
    \/ HandlerNack(c)

RetryStep ==
    \/ RetryLoop
    \/ RecordLaborCostCanExecute
    \/ RecordLaborCostChecked
    \/ LegacyAPICall
    \/ RecordLaborCostRecord
    \/ RecordLaborCostReturn
    \/ RetryFailed

ConsumerNext ==
    \/ Elapse
    \/ \E c \in Queues : BrokerStep(c)
    \/ \E c \in Queues : ConsumeStep(c)
    \/ RetryStep
    \/ RetrySleep

ConsumerSpec ==
    /\ ConsumerInit
    /\ [][ConsumerNext]_vars
    /\ WF_vars(Elapse)
    /\ \A c \in Queues : WF_vars(BrokerStep(c)) /\ WF_vars(ConsumeStep(c))
    /\ WF_vars(RetryStep \/ RetrySleep)

(* One process from start to shutdown: its relay loop on an empty outbox,  *)
(* its two workers, the broker connection that may break, and main, which  *)
(* cancels the loops and exits after its pause.  A goroutine that can take *)
(* a step takes it before the clock moves.                                 *)
ProcessStep ==
    \/ \E c \in Queues : ConsumeStep(c)
    \/ \E c \in Queues : ConsumeDone(c)
    \/ \E c \in Queues : ConsumeClosed(c)
    \/ \E c \in Queues : Close(c)
    \/ RetryStep
    \/ BackoffSleep
    \/ RelayPoll(1)
    \/ RelayPollFail(1)
    \/ RelayRows(1)
    \/ RelayDone(1)

ShutdownNext ==
    \/ Cancel
    \/ MainExit
    \/ main.pc # "exited" /\ ProcessStep
    \/ \E c \in Queues : BrokerStep(c)
    \/ \E c \in Queues : ConnectionLost(c)

ShutdownSpec == ConsumerInit /\ [][ShutdownNext]_vars

(* The HTTP server serving several requests at once, each in its own       *)
(* goroutine, with failures of the database.                               *)
ConcurrentNext ==
    \/ Tick
    \/ \E q \in Requests : RequestStep(q)
    \/ \E q \in Requests : RequestFail(q)

ConcurrentSpec == Init /\ [][ConcurrentNext]_vars

(* The tables after MaxBacklog employees each worked one shift, their       *)
(* requests served concurrently: one checked-out record per shift, its     *)
(* CheckedIn row written at 0 and its CheckedOut row written at some later *)
(* time (time.Now() is read before the commit, so commit order need not be *)
(* creation order), some of the CheckedOut rows already published.         *)
Staff == <<"E1", "E2", "E3">>

ShiftTimes == [1..MaxBacklog -> 1..MaxTime]

ShiftRecord(k, t) ==
    [id |-> k, emp |-> Staff[k], checkInAt |-> 0, checkOutAt |-> t,
     status |-> StatusCheckedOut, hours |-> t]

ShiftRow(ev, k, t, pub) ==
    [event_type |-> ev.event_type, aggregate_id |-> k, payload |-> ev,
     created_at |-> t, published |-> pub, retry_count |-> 0, last_error |-> ""]

ShiftOutbox(ts, pubs) ==
    [n \in 1..(2 * MaxBacklog) |->
        IF n <= MaxBacklog
        THEN ShiftRow(MarshalCheckedIn(n, [ShiftRecord(n, ts[n]) EXCEPT
                                              !.status = StatusCheckedIn]),
                      n, 0, FALSE)
        ELSE LET k == n - MaxBacklog
             IN ShiftRow(MarshalCheckedOut(n, ShiftRecord(k, ts[k])), k, ts[k],
                         pubs[k])]

(* At most one of the CheckedOut rows has been published already. *)
ShiftFlags ==
    {f \in [1..MaxBacklog -> BOOLEAN] : \A a, b \in 1..MaxBacklog : f[a] /\ f[b] => a = b}

(* The relay goroutines of all instances polling a backlog, with failures  *)
(* of the database and the broker striking the first instance.             *)
BacklogInit ==
    /\ now = MaxTime
    /\ faults = 0
    /\ \E ts \in ShiftTimes, pubs \in ShiftFlags :
          /\ records = [k \in 1..MaxBacklog |->
                           [emp |-> Staff[k], checkInAt |-> 0, checkOutAt |-> ts[k],
                            status |-> StatusCheckedOut, hours |-> ts[k],
                            writes |-> 2]]
          /\ outbox = ShiftOutbox(ts, pubs)
          /\ sent = [e \in 1..(2 * MaxBacklog) |->
                        IF e > MaxBacklog /\ pubs[e - MaxBacklog] THEN 1 ELSE 0]
    /\ locks = [i \in Instances |-> {}]
    /\ req = [q \in Requests |-> IdleReq]
    /\ relay = [i \in Instances |-> IdleRelay]
    /\ queue = [c \in Queues |-> <<>>]
    /\ inflight = [c \in Queues |-> <<>>]
    /\ cons = [c \in Queues |-> IdleCons]
    /\ acked = [c \in Queues |-> <<>>]
    /\ crashed = [i \in Instances |-> [pending |-> {}, returned |-> {}]]
    /\ dlq = [c \in Queues |-> <<>>]
    /\ main = Running
    /\ cb = NewCircuitBreaker(MaxThreshold, 1)
    /\ caller = [t \in Callers |-> IdleCaller]
    /\ consec = 0
    /\ retryConfig = NewLaborCostReporter
    /\ handler = IdleHandler
    /\ rl = NewRateLimiter(MaxRate)
    /\ lim = [t \in Callers |-> IdleWaiter]

BacklogNext ==
    \/ \E i \in Instances : RelayStep(i)
    \/ RelayFail(1)

BacklogSpec == BacklogInit /\ [][BacklogNext]_vars

(* One relay goroutine kept running on the backlog, with finitely many     *)
(* failures of the database and the broker.                                *)
SoloRelayNext == RelayStep(1) \/ RelayFail(1)

SoloRelaySpec == BacklogInit /\ [][SoloRelayNext]_vars /\ WF_vars(RelayStep(1))

----------------------------------------------------------------------------
(* Properties of the outbox and the relay *)

EventIds == 1..MaxEvents

BatchIds(i) == {relay[i].batch[n].id : n \in DOMAIN relay[i].batch}

(* The rows instance i has been handed by GetUnpublishedEvents and has not *)
(* finished publishing and marking.                                        *)
Claimed(i) ==
    IF relay[i].pc = "rows" THEN BatchIds(i)
    ELSE IF relay[i].pc \in {"publish", "mark", "incr"}
         THEN {relay[i].batch[n].id : n \in relay[i].idx..Len(relay[i].batch)}
         ELSE {}

(* C1: no outbox row is claimed (returned by GetUnpublishedEvents and      *)
(* still being published or marked) by two relay instances at once.        *)
C1_ExclusiveClaim ==
    \A i, j \in Instances : i # j => Claimed(i) \cap Claimed(j) = {}

RowsOf(id) == {k \in DOMAIN outbox : outbox[k].aggregate_id = id}

(* C2: SaveWithEvent is atomic.  Every committed write of a time record    *)
(* comes with exactly one outbox row of that record and the other way      *)
(* round, whatever step failed: the rows of a record are as many as the    *)
(* writes its time_records row has seen, a CheckedOut row exists only for  *)
(* a checked-out record, and any step that changes one table adds exactly  *)
(* one unpublished row to the other.                                       *)
C2_RowsMatchWrites ==
    /\ \A id \in EventIds :
          Cardinality(RowsOf(id)) = IF id \in DOMAIN records THEN records[id].writes ELSE 0
    /\ \A k \in DOMAIN outbox :
          /\ outbox[k].aggregate_id \in DOMAIN records
          /\ outbox[k].event_type = EventTypeEmployeeCheckedOut
                => records[outbox[k].aggregate_id].status = StatusCheckedOut

C2_SaveWithEventAtomic ==
    /\ []C2_RowsMatchWrites
    /\ [][/\ (records' # records) <=> (Len(outbox') # Len(outbox))
          /\ Len(outbox') # Len(outbox) =>
                /\ Len(outbox') = Len(outbox) + 1
                /\ ~outbox'[Len(outbox')].published
                /\ \A id \in DOMAIN records' \ {outbox'[Len(outbox')].aggregate_id} :
                      id \in DOMAIN records /\ records'[id] = records[id]]_vars

(* C2 witness: a request has failed inside SaveWithEvent and returned an   *)
(* error while committed rows exist.                                       *)
C2_Witness ==
    \E q \in Requests : req[q].resp = "error" /\ Len(outbox) >= 2

Delivered(k) == sent[outbox[k].payload.event_id] >= 1

(* C3: every committed CheckedOut outbox row is eventually published to    *)
(* the exchange and marked published.                                      *)
C3_AtLeastOnce ==
    \A k \in EventIds :
        (k \in DOMAIN outbox /\ outbox[k].event_type = EventTypeEmployeeCheckedOut)
            ~> (k \in DOMAIN outbox /\ outbox[k].published /\ Delivered(k))

(* C3 witness: a row whose first publish failed has been published and     *)
(* marked.                                                                 *)
C3_Witness ==
    \E k \in DOMAIN outbox :
        outbox[k].published /\ Delivered(k) /\ outbox[k].retry_count >= 1

(* C4: a row is marked published only by a relay that has just published   *)
(* it successfully; a failed publish takes the relay to                     *)
(* IncrementRetryCount, leaves the row as it is, and the row, if            *)
(* unpublished, still matches the claim query.                              *)
C4_MarkOnlyAfterPublish ==
    /\ [][\A k \in DOMAIN outbox :
             (~outbox[k].published /\ outbox'[k].published) =>
                 \E i \in Instances : /\ relay[i].pc = "mark"
                                      /\ Current(i).id = k
                                      /\ Delivered(k)]_vars
    /\ [][\A i \in Instances :
             (relay[i].pc = "publish" /\ relay'[i].pc # "publish"
              /\ sent'[Current(i).payload.event_id] = sent[Current(i).payload.event_id]
              /\ relay'[i] # IdleRelay) =>
                 /\ relay'[i].pc = "incr"
                 /\ outbox' = outbox
                 /\ ~outbox[Current(i).id].published => Current(i).id \in Unpublished']_vars
    /\ [](\A i \in Instances : relay[i].pc = "incr" => relay[i].idx \in DOMAIN relay[i].batch)

(* C4 witness: a publish has failed, the row is unpublished with its retry *)
(* count raised, and a relay holds it again in a later batch.              *)
C4_Witness ==
    \E i \in Instances :
        /\ relay[i].pc = "publish"
        /\ ~outbox[Current(i).id].published
        /\ outbox[Current(i).id].retry_count >= 1

(* C5: the published flag of a row only goes from false to true, its       *)
(* payload never changes, and the row is never deleted.                    *)
C5_RowMonotone ==
    [][\A k \in DOMAIN outbox :
          /\ k \in DOMAIN outbox'
          /\ outbox[k].published => outbox'[k].published
          /\ outbox'[k].payload = outbox[k].payload]_vars

(* C5 witness: a row that went through IncrementRetryCount and             *)
(* MarkAsPublished, with a later row saved after it.                       *)
C5_Witness ==
    \E k \in DOMAIN outbox :
        outbox[k].published /\ outbox[k].retry_count >= 1 /\ k < Len(outbox)

(* A step in which instance i crashes and restarts. *)
CrashStep(i) ==
    /\ faults' = faults + 1
    /\ relay'[i] = IdleRelay
    /\ crashed'[i] = [pending |-> Unpublished, returned |-> {}]
    /\ \A q \in Requests : ServedBy(q) = i => req'[q] = IdleReq

(* A step in which GetUnpublishedEvents of instance i returns its rows. *)
PollStep(i) == relay[i].pc = "tick" /\ relay'[i].pc = "rows"

(* C6 as claimed: a crash leaves the committed rows as they are, and each  *)
(* row that was unpublished at the crash and is unpublished still is       *)
(* returned by the next GetUnpublishedEvents of the restarted instance.    *)
C6_ReturnedByNextPoll ==
    [][\A i \in Instances :
          /\ CrashStep(i) => outbox' = outbox
          /\ PollStep(i) =>
                \A k \in crashed[i].pending :
                    ~outbox[k].published => k \in BatchIds(i)']_vars

(* C6 amended: ... is returned by the next GetUnpublishedEvents unless a   *)
(* concurrent claim holds its lock or the call returned `limit` rows none  *)
(* of which is newer.                                                      *)
C6_ClaimableAfterCrash ==
    [][\A i \in Instances :
          /\ CrashStep(i) => outbox' = outbox
          /\ PollStep(i) =>
                \A k \in crashed[i].pending :
                    ~outbox[k].published =>
                        \/ k \in BatchIds(i)'
                        \/ k \in LockedByOther(i)
                        \/ /\ Len(relay'[i].batch) = FetchLimit
                           /\ \A n \in DOMAIN relay'[i].batch :
                                 outbox[relay'[i].batch[n].id].created_at
                                     <= outbox[k].created_at]_vars

(* C6 witness: the first poll after a crash returned a row that was        *)
(* committed and unpublished when the instance crashed.                    *)
C6_Witness ==
    \E i \in Instances : relay[i].pc = "rows" /\ crashed[i].returned # {}

(* Number of elements of sequence s equal to x. *)
Occurrences(s, x) == Cardinality({n \in DOMAIN s : s[n] = x})

(* Copies of event e that queue c has received: ready, delivered or acked. *)
Copies(c, e) ==
    Cardinality({n \in DOMAIN queue[c] : queue[c][n].body.event_id = e})
    + Cardinality({n \in DOMAIN inflight[c] : inflight[c][n].body.event_id = e})
    + Occurrences(acked[c], e)

C7_AtMostOnce ==
    \A k \in DOMAIN outbox :
        LET e == outbox[k].payload.event_id
        IN /\ sent[e] <= 1
           /\ outbox[k].event_type = EventTypeEmployeeCheckedIn => sent[e] = 0
           /\ outbox[k].published => sent[e] = 1
           /\ \A c \in Queues : /\ Copies(c, e) = sent[e]
                                /\ Occurrences(acked[c], e) <= 1

C7_Done(k) ==
    /\ k \in DOMAIN outbox
    /\ outbox[k].published
    /\ sent[outbox[k].payload.event_id] = 1
    /\ \A c \in Queues : Occurrences(acked[c], outbox[k].payload.event_id) = 1

(* C7: in a failure-free run with one relay every appended CheckedOut      *)
(* event is published exactly once, each of the two bound queues receives  *)
(* exactly one copy of it, each handler acknowledges its copy once, and    *)
(* MarkAsPublished is called once, on the unpublished row: never more than *)
(* once at any point of the run, and eventually once.                      *)
C7_ScenarioA ==
    /\ []C7_AtMostOnce
    /\ [][relay[1].pc = "mark" /\ relay'[1] # relay[1] =>
             /\ ~outbox[Current(1).id].published
             /\ outbox'[Current(1).id].published]_vars
    /\ \A k \in EventIds :
          (k \in DOMAIN outbox /\ outbox[k].event_type = EventTypeEmployeeCheckedOut)
              ~> C7_Done(k)

(* C7 witness: a CheckedOut row is marked published, its event was taken   *)
(* by the exchange once and acknowledged once by each consumer.            *)
C7_Witness ==
    \E k \in DOMAIN outbox :
        outbox[k].event_type = EventTypeEmployeeCheckedOut /\ C7_Done(k)

----------------------------------------------------------------------------
(* Properties of the circuit breaker *)

(* Goroutine t returns from a call of op in this step. *)
Returns(t, op) == caller'[t].seq # caller[t].seq /\ caller'[t].op = op

Elapsed == Since(cb.lastFailureTime)

(* C8: a Closed breaker counts the failures recorded since the last        *)
(* success, opens in exactly the step whose RecordFailure brings that      *)
(* count to failureThreshold, every RecordSuccess sets the counter to      *)
(* zero, and an Open breaker stays Open and answers CanExecute with false  *)
(* while the time since the last failure is below the reset timeout.       *)
C8_ClosedToOpen ==
    /\ [](cb.state = StateClosed =>
             cb.failureCount = consec /\ consec < cb.failureThreshold)
    /\ [][cb.state = StateClosed =>
             (cb'.state # StateClosed <=>
                 /\ \E t \in Callers : Returns(t, "RecordFailure")
                 /\ consec' = cb.failureThreshold
                 /\ cb'.state = StateOpen
                 /\ cb'.lastFailureTime = now)]_vars
    /\ [][(\E t \in Callers : Returns(t, "RecordSuccess")) =>
             cb'.failureCount = 0]_vars
    /\ [][cb.state = StateOpen /\ Elapsed < ResetTimeoutS =>
             /\ cb'.state = StateOpen
             /\ \A t \in Callers : Returns(t, "CanExecute") => ~caller'[t].ret]_vars

(* C8 witness: two failures after a success opened a breaker of threshold  *)
(* two and CanExecute was refused before the timeout.                      *)
C8_Witness ==
    /\ cb.state = StateOpen
    /\ cb.failureThreshold = 2
    /\ consec = 2
    /\ cb.lastFailureTime > 0
    /\ Elapsed < ResetTimeoutS
    /\ caller[1].op = "CanExecute" /\ ~caller[1].ret /\ caller[1].at = now

(* C9 as claimed: on an Open breaker CanExecute returns false exactly when *)
(* the time since the last failure is below the reset timeout, and a call  *)
(* at or past the timeout returns true and leaves the breaker HalfOpen.    *)
C9_OpenUntilTimeout ==
    [][\A t \in Callers :
          (cb.state = StateOpen /\ Returns(t, "CanExecute")) =>
              /\ ~caller'[t].ret <=> Elapsed < ResetTimeoutS
              /\ caller'[t].ret => cb'.state = StateHalf
              /\ ~caller'[t].ret => cb' = cb]_vars

(* C9 amended: on an Open breaker CanExecute returns false exactly when    *)
(* the time since the last failure is at most the reset timeout, and the   *)
(* first call after more than the timeout returns true and leaves the      *)
(* breaker HalfOpen with its failure counter at zero.                      *)
C9_OpenThroughTimeout ==
    [][\A t \in Callers :
          (cb.state = StateOpen /\ Returns(t, "CanExecute")) =>
              /\ ~caller'[t].ret <=> Elapsed <= ResetTimeoutS
              /\ caller'[t].ret => cb' = [cb EXCEPT !.state = StateHalf,
                                                     !.failureCount = 0]
              /\ ~caller'[t].ret => cb' = cb]_vars

(* C9 witness: CanExecute was refused at exactly the timeout. *)
C9_Witness ==
    /\ cb.state = StateOpen
    /\ Elapsed = ResetTimeoutS
    /\ caller[1].op = "CanExecute" /\ ~caller[1].ret /\ caller[1].at = now

(* C10: a failure recorded while the breaker is HalfOpen moves it to Open  *)
(* in that step, whatever failureThreshold is.                             *)
C10_HalfOpenFailureOpens ==
    [][\A t \in Callers :
          (cb.state = StateHalf /\ Returns(t, "RecordFailure")) =>
              cb'.state = StateOpen]_vars

(* C11: in HalfOpen every recorded success adds one to the trial-success   *)
(* counter, which counts the successes recorded in a row in HalfOpen; the  *)
(* success that brings it to successThreshold closes the breaker with the  *)
(* failure counter and the success counter at zero, and before that the    *)
(* breaker stays HalfOpen.  Outside HalfOpen the counter is zero.          *)
C11_HalfOpenSuccesses ==
    /\ [](cb.state # StateHalf => cb.successCount = 0)
    /\ [](cb.state = StateHalf => cb.successCount < cb.successThreshold)
    /\ [][\A t \in Callers :
             (cb.state = StateHalf /\ Returns(t, "RecordSuccess")) =>
                 IF cb.successCount + 1 = cb.successThreshold
                 THEN cb' = [cb EXCEPT !.state = StateClosed, !.failureCount = 0,
                                       !.successCount = 0]
                 ELSE cb' = [cb EXCEPT !.failureCount = 0,
                                       !.successCount = cb.successCount + 1]]_vars
    /\ [][cb'.successCount # cb.successCount =>
             \/ cb.state = StateHalf /\ \E t \in Callers : Returns(t, "RecordSuccess")
             \/ cb'.successCount = 0 /\ \E t \in Callers : Returns(t, "RecordFailure")]_vars

(* C11 witness: a breaker of success threshold two that its first failure  *)
(* opened has been closed by the second success in a row in HalfOpen.      *)
C11_Witness ==
    /\ cb.state = StateClosed
    /\ cb.successThreshold = 2
    /\ cb.failureThreshold = 1
    /\ cb.lastFailureTime # NoTime
    /\ cb.successCount = 0 /\ cb.failureCount = 0
    /\ caller[1].op = "RecordSuccess"

(* C12: the expired-timeout check and the write of HalfOpen are one atomic *)
(* step: whenever a caller of CanExecute writes HalfOpen, the breaker is   *)
(* Open with its timeout expired at that moment, so one Open period sees   *)
(* one transition and no write rests on a state another caller changed.    *)
C12_AtomicTransition ==
    [][\A t \in Callers :
          (caller[t].pc = "upgrade" /\ caller'[t].pc = "idle") =>
              cb.state = StateOpen /\ Elapsed > ResetTimeoutS]_vars

----------------------------------------------------------------------------
(* Properties of the retry loop of the labor-cost worker *)

(* C13: when the call fails MaxAttempts - 1 times and then succeeds,       *)
(* HandleCheckedOut returns success after MaxAttempts calls and            *)
(* MaxAttempts - 1 sleeps, and the time slept is the sum of the back-off   *)
(* intervals; it never returns a failure with fewer than MaxAttempts       *)
(* failures, and a call that succeeded always ends in a successful return. *)
C13_SucceedsOnLastAttempt ==
    /\ []((handler.pc = "done" /\ handler.res = "ok"
            /\ handler.attempt = retryConfig.MaxAttempts - 1) =>
              /\ handler.calls = retryConfig.MaxAttempts
              /\ Len(handler.sleeps) = retryConfig.MaxAttempts - 1
              /\ handler.slept = SeqSum(handler.sleeps))
    /\ []((handler.pc = "done" /\ handler.res # "ok") =>
              handler.attempt >= retryConfig.MaxAttempts)
    /\ (handler.pc = "recordSuccess") ~> (handler.pc = "done" /\ handler.res = "ok")

(* C13 witness: three attempts configured, two failures, then success. *)
C13_Witness ==
    /\ handler.pc = "done" /\ handler.res = "ok"
    /\ retryConfig.MaxAttempts = 3
    /\ handler.attempt = 2
    /\ Len(handler.sleeps) = 2

(* C14: whatever the calls answer, HandleCheckedOut ends; it makes at most *)
(* MaxAttempts calls; when all fail it has made exactly MaxAttempts calls, *)
(* slept only between them, not after the last, and returns a failure.     *)
C14_RetriesExhausted ==
    /\ [](handler.calls <= retryConfig.MaxAttempts)
    /\ []((handler.pc = "done" /\ handler.attempt = handler.calls) =>
              /\ handler.res # "ok"
              /\ handler.calls = retryConfig.MaxAttempts
              /\ Len(handler.sleeps) = retryConfig.MaxAttempts - 1)
    /\ [][(handler.pc # "done" /\ handler'.pc = "done") =>
              handler.pc # "sleep" /\ now' = now]_vars
    /\ (handler.pc = "loop") ~> (handler.pc = "done")

(* C14 witness: three attempts configured and all three failed. *)
C14_Witness ==
    /\ handler.pc = "done" /\ handler.res = "failed after attempts"
    /\ retryConfig.MaxAttempts = 3
    /\ handler.calls = 3

RECURSIVE Pow(_, _)
Pow(b, e) == IF e = 0 THEN 1 ELSE b * Pow(b, e - 1)

(* C15: for every configuration the k-th sleep of the retry loop lasts     *)
(* min(InitialBackoff * BackoffMultiplier^(k-1), MaxBackoff), so no sleep  *)
(* is longer than MaxBackoff.                                              *)
C15_BackoffCapped ==
    \A k \in DOMAIN handler.sleeps :
        /\ handler.sleeps[k] =
              Min(retryConfig.InitialBackoff * Pow(retryConfig.BackoffMultiplier, k - 1),
                  retryConfig.MaxBackoff)
        /\ handler.sleeps[k] <= retryConfig.MaxBackoff

(* C16: a call the breaker refuses returns its error without a request to  *)
(* the legacy API, and the retry loop treats it as it treats a failed      *)
(* request: one more attempt used, then the same back-off sleep or, with   *)
(* no attempt left, the failure return.  Every call is either refused or   *)
(* one request to the API.                                                 *)
C16_RejectionIsFailedAttempt ==
    /\ [][(handler.pc = "canExecute" /\ handler'.pc # "canExecute" /\ ~caller[1].ret) =>
              /\ handler'.pc = "failed"
              /\ handler'.http = handler.http
              /\ handler'.rejects = handler.rejects + 1]_vars
    /\ [][(handler.pc = "failed" /\ handler' # handler) =>
              /\ handler'.attempt = handler.attempt + 1
              /\ handler'.backoff = handler.backoff
              /\ IF handler'.attempt >= retryConfig.MaxAttempts
                 THEN handler'.pc = "done" /\ handler'.res # "ok"
                 ELSE handler'.pc = "sleep"]_vars
    /\ [](handler.calls = handler.http + handler.rejects
                            + (IF handler.pc \in {"canExecute", "http"} THEN 1 ELSE 0))

(* C16 witness: a request failed and opened the breaker, the next call was *)
(* refused, and the loop slept after each of the two.                      *)
C16_Witness ==
    /\ handler.rejects >= 1
    /\ handler.http = 1
    /\ Len(handler.sleeps) >= 2

----------------------------------------------------------------------------
(* Properties of the rate limiter *)

(* Goroutine t leaves the body of WaitForToken in this step. *)
BodyStep(t) == lim[t].pc = "locked" /\ lim'[t].pc # "locked"

(* The bucket after the lazy refill, and the wait for one whole token. *)
LazyRefill == Min(rl.tokens + (now - rl.lastRefillAt) * rl.refillRate, rl.maxTokens)
RefillWait == (Minute - LazyRefill) \div rl.refillRate

(* C17: on a fresh limiter of capacity N with no time passed, each of the  *)
(* first N calls returns a token with zero wait; the next call gets none   *)
(* at once: it fails when the refill duration exceeds its maxWait, and     *)
(* otherwise waits the computed refill duration and then goes on.          *)
C17_CapacityThenWait ==
    /\ [][\A t \in Callers :
             (BodyStep(t) /\ now = 0 /\ lim[t].depth = 0) =>
                 IF rl.tokens >= Minute
                 THEN /\ lim'[t].pc = "idle" /\ lim'[t].res = "ok" /\ lim'[t].ret = 0
                      /\ rl'.tokens = rl.tokens - Minute
                 ELSE IF Minute \div rl.refillRate > lim[t].maxWait
                      THEN lim'[t].pc = "idle" /\ lim'[t].res = "error"
                      ELSE lim'[t].pc = "sleep"
                           /\ lim'[t].wait = Minute \div rl.refillRate]_vars
    /\ [][\A t \in Callers :
             (lim[t].pc = "sleep" /\ lim'[t].pc # "sleep") =>
                 now' - now = lim[t].wait]_vars
    /\ [](\A t \in Callers : lim[t].depth > 0 => rl.mu # t)

(* C18: the time a call of WaitForToken(maxWait) has spent sleeping never  *)
(* exceeds maxWait.                                                        *)
C18_BoundedWait ==
    \A t \in Callers : lim[t].slept <= lim[t].budget

(* C19: a call of WaitForToken never waits for the limiter's mutex while   *)
(* holding it itself.                                                      *)
C19_NoSelfDeadlock ==
    \A t \in Callers : lim[t].pc = "lock" => rl.mu # t

(* C20: when the wait for the next token exceeds the budget of the call,   *)
(* WaitForToken returns an error in that step, without sleeping, leaving   *)
(* in the bucket what the lazy refill put there; and it returns an error   *)
(* in no other case.                                                       *)
C20_EarlyFailure ==
    /\ [][\A t \in Callers :
             (BodyStep(t) /\ LazyRefill < Minute /\ RefillWait > lim[t].maxWait) =>
                 /\ lim'[t].pc = "idle" /\ lim'[t].res # "ok"
                 /\ now' = now
                 /\ lim'[t].slept = lim[t].slept
                 /\ rl'.tokens = LazyRefill
                 /\ rl'.mu = 0]_vars
    /\ [][\A t \in Callers :
             (BodyStep(t) /\ lim'[t].pc = "idle" /\ lim'[t].res = "error") =>
                 /\ LazyRefill < Minute /\ RefillWait > lim[t].maxWait
                 /\ lim'[t].slept = 0]_vars

(* C20 witness: a call failed on a bucket holding a part of a token. *)
C20_Witness ==
    \E t \in Callers :
        /\ lim[t].pc = "idle" /\ lim[t].res = "error"
        /\ rl.tokens > 0 /\ rl.tokens < Minute
        /\ rl.lastRefillAt = now /\ rl.mu = 0

----------------------------------------------------------------------------
(* Properties of the consumers and the workers *)

(* The ready and unacknowledged messages of queue c that carry event e. *)
Holds(ms, e) == \E n \in DOMAIN ms : Unmarshal(ms[n].body) # Nil /\ ms[n].body.event_id = e

(* C21: the consumer leaves the handler by exactly one response to the     *)
(* delivery: an ack exactly when the handler returned nil, and the message *)
(* is then gone from the queue for good, otherwise a nack that puts the    *)
(* message back into the queue it came from; a delivery that has its       *)
(* response gets no second one.                                            *)
C21_OneResponse ==
    /\ [][\A c \in Queues :
             (cons[c].pc = "handle" /\ cons'[c].pc # "handle") =>
                 /\ cons'[c].pc = "wait"
                 /\ cons[c].call \in {"nil", "error"}
                 /\ cons[c].resp = "none"
                 /\ cons'[c].resp \in {"ack", "nack"}
                 /\ cons'[c].resp = "ack" <=> cons[c].call = "nil"
                 /\ inflight[c] = <<cons[c].msg>>
                 /\ inflight'[c] = <<>>
                 /\ dlq'[c] = dlq[c]
                 /\ IF cons'[c].resp = "ack"
                    THEN queue'[c] = queue[c]
                    ELSE queue'[c] = <<cons[c].msg>> \o queue[c]]_vars
    /\ [][\A c \in Queues :
             (cons[c].resp # "none" /\ cons'[c].resp # cons[c].resp) =>
                 /\ cons[c].pc = "wait" /\ cons'[c].pc = "handle"
                 /\ cons'[c].resp = "none"]_vars
    /\ [](\A c \in Queues : \A n \in DOMAIN acked[c] :
             /\ ~Holds(queue[c], acked[c][n])
             /\ ~Holds(inflight[c], acked[c][n])
             /\ ~Holds(dlq[c], acked[c][n]))

(* C21 witness: one consumer has acknowledged a message and the other has  *)
(* rejected the message it took last, which is back in its queue.          *)
C21_Witness ==
    /\ acked[LaborCostQueue] # <<>>
    /\ cons[EmailQueue].pc = "wait"
    /\ cons[EmailQueue].resp = "nack"
    /\ queue[EmailQueue] # <<>>
    /\ Head(queue[EmailQueue]) = cons[EmailQueue].msg

(* Message m is ready in queue c or delivered to its consumer. *)
Pending(c, m) == m \in Range(queue[c]) \cup Range(inflight[c])

(* C22: a message enters the dead-letter queue of its own queue, from the  *)
(* head of that queue and only when it has been enqueued for longer than   *)
(* the time-to-live; once there it stays and is not delivered again; and   *)
(* every message of a queue is in the end acknowledged or dead-lettered,   *)
(* so that one whose handler fails every time, being nacked each time and  *)
(* never acknowledged, ends in the dead-letter queue.                      *)
C22_TimeBasedDeadLetter ==
    /\ [][\A c \in Queues :
             dlq'[c] # dlq[c] =>
                 /\ queue[c] # <<>>
                 /\ dlq'[c] = Append(dlq[c], Head(queue[c]))
                 /\ queue'[c] = Tail(queue[c])
                 /\ now - Head(queue[c]).enq > DLQTTL]_vars
    /\ [](\A c \in Queues : \A n \in DOMAIN dlq[c] : ~Pending(c, dlq[c][n]))
    /\ [][\A c \in Queues :
             (cons[c].pc = "handle" /\ cons[c].call = "error" /\ cons'[c] # cons[c]) =>
                 /\ cons'[c].resp = "nack"
                 /\ Pending(c, cons[c].msg)'
                 /\ acked'[c] = acked[c]]_vars
    /\ \A c \in Queues : \A m \in Messages :
          Pending(c, m) ~>
              \/ m \in Range(dlq[c])
              \/ Unmarshal(m.body) # Nil /\ m.body.event_id \in Range(acked[c])

(* C22 witness: the labor-cost handler failed all its attempts on a        *)
(* message, more than once, and the message is in labor-cost-queue-dlq     *)
(* without ever having been acknowledged.                                  *)
C22_Witness ==
    /\ Published(1) \in Range(dlq[LaborCostQueue])
    /\ acked[LaborCostQueue] = <<>>
    /\ cons[LaborCostQueue].msg = Published(1)
    /\ cons[LaborCostQueue].resp = "nack"
    /\ handler.res = "failed after attempts"
    /\ now > DLQTTL

(* The labor-cost consumer responds to a message on which the handler has  *)
(* just failed its last attempt.                                           *)
Exhausted ==
    /\ cons[LaborCostQueue].pc = "handle"
    /\ cons[LaborCostQueue].call = "error"
    /\ Unmarshal(cons[LaborCostQueue].msg.body) # Nil
    /\ cons'[LaborCostQueue].pc = "wait"

C24_PrefetchSerial ==
    /\ [](\A c \in Queues : Len(inflight[c]) <= PrefetchCount)
    /\ [][\A c \in Queues :
             (cons[c].call # "called" /\ cons'[c].call = "called") =>
                 /\ cons[c].pc = "wait"
                 /\ cons[c].call = "none" \/ cons[c].resp \in {"ack", "nack"}
                 /\ cons'[c].msg \in Range(inflight[c])]_vars

(* C24 witness: a consumer is inside its handler with the prefetch count   *)
(* of messages unacknowledged while a message that could be delivered      *)
(* waits in the queue.                                                     *)
C24_Witness ==
    \E c \in Queues :
        /\ cons[c].pc = "handle"
        /\ Len(inflight[c]) = PrefetchCount
        /\ queue[c] # <<>>
        /\ ~Expired(Head(queue[c]))

(* C25: once main has cancelled the context no consumer takes a message    *)
(* into its handler, the retry loop starts no back-off sleep and the relay *)
(* starts no poll.                                                         *)
C25_CancellationObserved ==
    [][Cancelled =>
          /\ \A c \in Queues : ~(cons[c].pc = "wait" /\ cons'[c].pc = "handle")
          /\ ~(handler.pc # "sleep" /\ handler'.pc = "sleep")
          /\ ~(relay[1].pc = "tick" /\ relay'[1].pc = "rows")]_vars

(* C26: when the process ends after cancellation every consumer has        *)
(* returned from Consume and been closed, and the relay loop has returned. *)
C26_ClosedAtExit ==
    main.pc = "exited" =>
        /\ \A c \in Queues : cons[c].pc = "closed" /\ cons[c].channel = "closed"
        /\ relay[1].pc = "returned"

(* C28: a consumer loop or the relay loop has ended only if the context    *)
(* was cancelled.                                                          *)
C28_OnlyCancellationEnds ==
    /\ \A c \in Queues : cons[c].pc \in {"returned", "closed"} => Cancelled
    /\ relay[1].pc = "returned" => Cancelled

(* C29: a handler called with a body that does not deserialize returns an  *)
(* error in that step, with no call of the legacy API or the breaker, no   *)
(* retry and no sleep; the consumer nacks the message back to the head of  *)
(* its queue; the message is never acknowledged and ends in the            *)
(* dead-letter queue of its queue.                                         *)
C29_MalformedFailsFast ==
    /\ [][\A c \in Queues :
             (cons[c].call = "called" /\ cons'[c].call # "called"
                 /\ Unmarshal(cons[c].msg.body) = Nil) =>
                 /\ cons'[c].call = "error"
                 /\ handler' = handler
                 /\ cb' = cb /\ caller' = caller
                 /\ now' = now]_vars
    /\ [](\A c \in Queues :
             (cons[c].pc = "handle" /\ Unmarshal(cons[c].msg.body) = Nil) =>
                 cons[c].call \in {"called", "error"})
    /\ [][\A c \in Queues :
             (cons[c].pc = "handle" /\ cons'[c].pc # "handle"
                 /\ Unmarshal(cons[c].msg.body) = Nil) =>
                 /\ cons'[c].resp = "nack"
                 /\ queue'[c] = <<cons[c].msg>> \o queue[c]
                 /\ acked'[c] = acked[c]]_vars
    /\ \A c \in Queues : Pending(c, Poison) ~> (Poison \in Range(dlq[c]))

(* C29 witness: the labor-cost consumer has nacked a malformed message     *)
(* without its handler having made a call or slept, and the time-to-live   *)
(* has moved the message to the dead-letter queue.                         *)
C29_Witness ==
    /\ cons[LaborCostQueue].msg = Poison
    /\ cons[LaborCostQueue].resp = "nack"
    /\ handler = IdleHandler
    /\ Poison \in Range(dlq[LaborCostQueue])
    /\ now > DLQTTL

----------------------------------------------------------------------------
(* Properties of the requests *)

(* Employee e was checked out less than the duplicate window ago. *)
RecentCheckOut(e) ==
    \E id \in DOMAIN records :
        /\ records[id].emp = e
        /\ records[id].status = StatusCheckedOut
        /\ now - records[id].checkOutAt < DuplicateWindowSec

(* C27: while a request of an employee who was checked out less than the   *)
(* duplicate window ago is being handled, no time record changes and no    *)
(* outbox row is written, and the request does not end in success.         *)
C27_DuplicateRejected ==
    [][\A q \in Requests :
          (req[q].pc # "idle" /\ RecentCheckOut(req[q].emp)) =>
              /\ records' = records
              /\ Len(outbox') = Len(outbox)
              /\ req'[q].pc = "idle" =>
                     req'[q].resp \notin {"checked_in", "checked_out"}]_vars

(* C30: what a request does and answers follows from the tables, the       *)
(* request and the failures of the database alone: the look-up decides     *)
(* between check-out and check-in from the rows of the employee, a commit  *)
(* answers success and stores the record computed from those rows, a       *)
(* failed save of a check-in answers the error, an active record answers   *)
(* the conflict; and a step of a request changes nothing of the relay, the *)
(* broker, the consumers, the handlers or the breaker.                     *)
C30_ResultFromDatabase ==
    [][\A q \in Requests :
          (req[q].pc # "idle" /\ req'[q] # req[q] /\ req'[q] # IdleReq) =>
              LET r == req[q]
                  n == req'[q]
                  dbFault == faults' = faults + 1
              IN /\ UNCHANGED <<relay, sent, queue, inflight, cons, acked, dlq, main,
                                cbVars, workerVars, limiterVars>>
                 /\ (r.pc = "coFind" /\ ~dbFault) =>
                        \E id \in FindActiveByEmployeeID(r.emp) :
                            IF id = NoId
                               \/ now - records[id].checkInAt < DuplicateWindowSec
                            THEN n.pc = "ciFind"
                            ELSE /\ n.pc = "begin" /\ n.phase = "out"
                                 /\ n.rec = TimeRecordCheckOut(ScanRecord(id))
                 /\ (r.pc = "coFind" /\ dbFault) => n.pc = "ciFind"
                 /\ (r.pc = "ciFind" /\ ~dbFault) =>
                        IF ActiveIds(r.emp) # {}
                        THEN n.pc = "idle" /\ n.resp = "conflict"
                        ELSE n.pc = "begin" /\ n.phase = "in" /\ n.rec.emp = r.emp
                 /\ (r.pc = "ciFind" /\ dbFault) => n.pc = "begin" /\ n.phase = "in"
                 /\ (r.pc = "begin" /\ ~dbFault) => n.pc = "commit" /\ n.rec = r.rec
                 /\ (r.pc = "commit" /\ ~dbFault) =>
                        /\ n.pc = "idle"
                        /\ n.resp = IF r.phase = "out" THEN "checked_out"
                                                      ELSE "checked_in"
                        /\ r.rec.id \in DOMAIN records'
                        /\ records'[r.rec.id].status = r.rec.status
                        /\ records'[r.rec.id].emp = r.emp
                        /\ records'[r.rec.id].checkOutAt = r.rec.checkOutAt
                        /\ records'[r.rec.id].hours = r.rec.hours
                 /\ (r.pc \in {"begin", "commit"} /\ dbFault) =>
                        /\ records' = records
                        /\ IF r.phase = "out"
                           THEN n.pc = "ciFind"
                           ELSE n.pc = "idle" /\ n.resp = "error"]_vars

(* C30 witness: a check-out was answered with success although the broker  *)
(* had refused an event of the outbox, which is still unpublished.         *)
C30_Witness ==
    /\ req[1].pc = "idle"
    /\ req[1].resp = "checked_out"
    /\ \E k \in DOMAIN outbox : outbox[k].retry_count > 0 /\ ~outbox[k].published

----------------------------------------------------------------------------
(* Properties of the composition around the legacy API *)

(* C31: every request the labor-cost handler sends to the legacy API is    *)
(* sent by a caller that obtained a token from the rate limiter: when the  *)
(* request goes out, a WaitForToken call has returned a token.             *)
C31_TokenBeforeRequest ==
    [][handler'.http > handler.http =>
          \E t \in Callers : lim[t].res = "ok" \/ rl # NewRateLimiter(MaxRate)]_vars

----------------------------------------------------------------------------
(* Properties of the relay's batches *)

(* The row ids of the batch instance i holds after the step. *)
NewBatch(i) == {relay'[i].batch[n].id : n \in DOMAIN relay'[i].batch}

(* GetUnpublishedEvents of instance i returns in this step. *)
Polls(i) == relay[i].pc = "tick" /\ relay'[i].pc = "rows"

(* The batch of the poll is within the limit, unpublished, of the          *)
(* CheckedOut type, sorted by creation time, and no row of the set rest is *)
(* older than a row of the batch.                                          *)
OldestOf(i, rest) ==
    LET b == relay'[i].batch
    IN /\ Len(b) <= FetchLimit
       /\ \A n \in DOMAIN b :
             /\ ~outbox[b[n].id].published
             /\ outbox[b[n].id].event_type = EventTypeEmployeeCheckedOut
             /\ \A o \in rest \ NewBatch(i) :
                   outbox[b[n].id].created_at <= outbox[o].created_at
       /\ \A n, m \in DOMAIN b :
             n < m => outbox[b[n].id].created_at <= outbox[b[m].id].created_at

(* A publish of instance i sends the row at its index, after every row of  *)
(* the batch created earlier and before every row created later.           *)
PublishesInOrder(i) ==
    (relay[i].pc = "publish" /\ relay'[i].pc \in {"mark", "incr"}) =>
        \A n \in DOMAIN relay[i].batch :
            /\ n < relay[i].idx =>
                  outbox[relay[i].batch[n].id].created_at
                     <= outbox[Current(i).id].created_at
            /\ n > relay[i].idx =>
                  outbox[relay[i].batch[n].id].created_at
                     >= outbox[Current(i).id].created_at

(* C32 as stated: each cycle claims at most FetchLimit rows, unpublished   *)
(* and CheckedOut, the oldest of all such rows, and publishes its batch in *)
(* ascending creation order.                                               *)
C32_OldestUnpublished ==
    [][\A i \in Instances :
          /\ Polls(i) => OldestOf(i, Unpublished)
          /\ PublishesInOrder(i)]_vars

(* C32 amended: the rows claimed are the oldest of the unpublished         *)
(* CheckedOut rows that no other instance's running claim has locked.      *)
C32_OldestClaimable ==
    [][\A i \in Instances :
          /\ Polls(i) => OldestOf(i, Claimable(i))
          /\ PublishesInOrder(i)]_vars

(* C32 witness: a relay has published the first row of a full batch and is *)
(* at its second, while a younger unpublished CheckedOut row was left out. *)
C32_Witness ==
    \E i \in Instances :
        /\ relay[i].pc = "publish"
        /\ relay[i].idx = FetchLimit
        /\ Len(relay[i].batch) = FetchLimit
        /\ \E o \in Unpublished :
              /\ \A n \in DOMAIN relay[i].batch : relay[i].batch[n].id # o
              /\ outbox[o].created_at > outbox[Current(i).id].created_at

(* Instance i leaves the failure branch of its publish in this step. *)
AfterFailedPublish(i) == relay[i].pc = "incr" /\ relay'[i] # relay[i]

(* The step adds one to the retry count of row k, stores an error text and *)
(* leaves every other column and every other row as they were.             *)
FailureRecorded(k) ==
    /\ DOMAIN outbox' = DOMAIN outbox
    /\ \A j \in DOMAIN outbox : j # k => outbox'[j] = outbox[j]
    /\ outbox'[k].retry_count = outbox[k].retry_count + 1
    /\ outbox'[k].last_error # ""
    /\ outbox'[k].published = outbox[k].published
    /\ outbox'[k].payload = outbox[k].payload
    /\ outbox'[k].created_at = outbox[k].created_at
    /\ outbox'[k].event_type = outbox[k].event_type
    /\ outbox'[k].aggregate_id = outbox[k].aggregate_id

(* A poll of instance i passes over an unpublished, unlocked CheckedOut    *)
(* row only for a full batch of rows that are not younger, whatever the    *)
(* retry counts.                                                           *)
RetriesStayEligible(i) ==
    Polls(i) =>
        \A k \in DOMAIN outbox :
            (/\ ~outbox[k].published
             /\ outbox[k].event_type = EventTypeEmployeeCheckedOut
             /\ k \notin LockedByOther(i)
             /\ k \notin NewBatch(i)) =>
                /\ Len(relay'[i].batch) = FetchLimit
                /\ \A b \in NewBatch(i) : outbox[b].created_at <= outbox[k].created_at

(* C33 as stated: after a failed publish the relay adds exactly one to the *)
(* row's retry count and stores the error, changing nothing else, and the  *)
(* row stays eligible for later claims.                                    *)
C33_FailureAlwaysRecorded ==
    [][\A i \in Instances :
          /\ AfterFailedPublish(i) => FailureRecorded(Current(i).id)
          /\ RetriesStayEligible(i)]_vars

(* C33 amended: the same, unless the UPDATE of IncrementRetryCount itself  *)
(* fails; the relay ignores that error and the tables are left unchanged.  *)
C33_FailureRecordedUnlessUpdateFails ==
    [][\A i \in Instances :
          /\ AfterFailedPublish(i) =>
                \/ FailureRecorded(Current(i).id)
                \/ faults' = faults + 1 /\ outbox' = outbox
          /\ RetriesStayEligible(i)]_vars

(* C33 witness: a row whose publish failed twice is in a relay's batch     *)
(* again, unpublished, about to be published.                              *)
C33_Witness ==
    \E i \in Instances :
        /\ relay[i].pc = "publish"
        /\ outbox[Current(i).id].retry_count >= 2
        /\ ~outbox[Current(i).id].published

(* Row k is an unpublished CheckedOut row whose event the exchange has     *)
(* accepted n times, and no relay is between that publish and its          *)
(* MarkAsPublished.                                                        *)
PublishedUnmarked(k, n) ==
    /\ k \in DOMAIN outbox
    /\ outbox[k].event_type = EventTypeEmployeeCheckedOut
    /\ ~outbox[k].published
    /\ n >= 1
    /\ sent[outbox[k].payload.event_id] = n
    /\ \A i \in Instances : ~(relay[i].pc = "mark" /\ Current(i).id = k)

(* C34: a failed MarkAsPublished after a successful publish leaves the     *)
(* tables as they were (the row unpublished, its retry count unchanged);   *)
(* the row's event is then published again, so it reaches the exchange     *)
(* more than once; and a row is marked published only after its event      *)
(* reached the exchange.                                                   *)
C34_RepublishedAfterMarkFailure ==
    /\ [][\A i \in Instances :
             (relay[i].pc = "mark" /\ relay'[i] # relay[i] /\ faults' = faults + 1
                 /\ crashed'[i] = crashed[i]) =>
                 /\ outbox' = outbox
                 /\ sent' = sent
                 /\ sent[Current(i).payload.event_id] >= 1]_vars
    /\ [](\A k \in DOMAIN outbox :
             (outbox[k].published
                 /\ outbox[k].event_type = EventTypeEmployeeCheckedOut) =>
                 sent[outbox[k].payload.event_id] >= 1)
    /\ \A k \in 1..(2 * MaxBacklog), n \in 1..(MaxFaults + 1) :
          PublishedUnmarked(k, n) ~>
              (k \in DOMAIN outbox /\ sent[outbox[k].payload.event_id] > n)

(* C34 witness: after a failed MarkAsPublished the event has reached the   *)
(* exchange twice and its row is still unpublished, the relay being about  *)
(* to mark it.                                                             *)
C34_Witness ==
    \E i \in Instances :
        /\ relay[i].pc = "mark"
        /\ sent[Current(i).payload.event_id] = 2
        /\ ~outbox[Current(i).id].published
        /\ outbox[Current(i).id].retry_count = 0
        /\ faults >= 1

(* C35: a CheckedIn outbox row is in no relay's batch, its event has not   *)
(* been published to the exchange and is in no queue, and the row is       *)
(* unpublished, in every reachable state.                                  *)
C35_CheckedInNeverClaimed ==
    \A k \in DOMAIN outbox :
        outbox[k].event_type = EventTypeEmployeeCheckedIn =>
            /\ ~outbox[k].published
            /\ sent[outbox[k].payload.event_id] = 0
            /\ \A i \in Instances : k \notin BatchIds(i) /\ k \notin locks[i]
            /\ \A c \in Queues : \A n \in DOMAIN queue[c] :
                  queue[c][n].type # EventTypeEmployeeCheckedIn

(* C35 witness: the CheckedOut row of a shift has been published and       *)
(* marked while the CheckedIn row written before it is still unpublished   *)
(* and the relay is polling again.                                         *)
C35_Witness ==
    \E k, o \in DOMAIN outbox :
        /\ k < o
        /\ outbox[k].event_type = EventTypeEmployeeCheckedIn
        /\ outbox[o].event_type = EventTypeEmployeeCheckedOut
        /\ outbox[o].published
        /\ ~outbox[k].published
        /\ \E i \in Instances : relay[i].pc = "rows"

----------------------------------------------------------------------------
(* Properties of concurrent requests *)

(* C36: every employee has at most one time record in state CHECKED_IN,    *)
(* for every interleaving of concurrent requests and failed look-ups.      *)
C36_OneActiveRecord ==
    \A e \in Employees : Cardinality(ActiveIds(e)) <= 1

(* The CheckedOut rows the outbox holds for record id. *)
CheckOutRows(id) ==
    {k \in DOMAIN outbox : /\ outbox[k].event_type = EventTypeEmployeeCheckedOut
                           /\ outbox[k].aggregate_id = id}

(* C37: every time record is checked out at most once (one insert, one     *)
(* update) and has at most one CheckedOut outbox row, for every            *)
(* interleaving of concurrent check-out requests.                          *)
C37_CheckedOutOnce ==
    \A id \in DOMAIN records :
        /\ Cardinality(CheckOutRows(id)) <= 1
        /\ records[id].writes <= 2

----------------------------------------------------------------------------
(* Properties of the breaker's state machine *)

BreakerEdges ==
    {<<StateClosed, StateOpen>>, <<StateOpen, StateHalf>>, <<StateHalf, StateClosed>>,
     <<StateHalf, StateOpen>>}

(* C38: the breaker state changes only from Closed to Open, from Open to   *)
(* HalfOpen, from HalfOpen to Closed and from HalfOpen to Open, whatever   *)
(* the callers do concurrently.                                            *)
C38_StateEdges ==
    [][cb'.state # cb.state => <<cb.state, cb'.state>> \in BreakerEdges]_vars

(* C39: while the breaker is Closed its failure count is below the failure *)
(* threshold; its success count is always below the success threshold, and *)
(* is zero while the breaker is Closed or Open.                            *)
C39_CounterInvariant ==
    /\ cb.state = StateClosed => cb.failureCount < cb.failureThreshold
    /\ cb.successCount < cb.successThreshold
    /\ cb.state \in {StateClosed, StateOpen} => cb.successCount = 0

(* C39 witness: the breaker is HalfOpen after a trial success that did    *)
(* not close it: the success count is one below the success threshold.     *)
C39_Witness ==
    /\ cb.state = StateHalf
    /\ cb.successThreshold > 1
    /\ cb.successCount = cb.successThreshold - 1
    /\ caller[1].op = "RecordSuccess"

(* The goroutine of the worker completes the call op in this step. *)
Completes(op) == caller'[1].seq # caller[1].seq /\ caller'[1].op = op

(* C40: a call the Open breaker rejects leaves the breaker as it is: the   *)
(* refusing CanExecute changes nothing, the rejected call sends no request *)
(* and reports nothing to the breaker, and requests, successes and         *)
(* failures only follow a CanExecute that allowed the call.                *)
C40_RejectionLeavesBreaker ==
    [][/\ (Completes("CanExecute") /\ ~caller'[1].ret) =>
             cb' = cb /\ cb.state = StateOpen
       /\ handler'.rejects > handler.rejects =>
             /\ cb' = cb
             /\ caller' = caller
             /\ handler'.http = handler.http
             /\ handler'.pc = "failed"
       /\ handler'.http > handler.http =>
             caller[1].op = "CanExecute" /\ caller[1].ret
       /\ (Completes("RecordSuccess") \/ Completes("RecordFailure")) =>
             /\ caller[1].op = "CanExecute" /\ caller[1].ret
             /\ handler.pc \in {"recordSuccess", "recordFailure"}
       /\ cb'.lastFailureTime # cb.lastFailureTime => Completes("RecordFailure")]_vars

(* C40 witness: the breaker is Open, the handler's call was rejected some  *)
(* time after the last failure, and the last-failure time is still that of *)
(* the failed request.                                                     *)
C40_Witness ==
    /\ cb.state = StateOpen
    /\ handler.pc = "failed"
    /\ handler.rejects >= 1
    /\ caller[1].op = "CanExecute"
    /\ ~caller[1].ret
    /\ now > cb.lastFailureTime

====
